---- MODULE Spec2Model ----
(***************************************************************************)
(* TaskFlow backend: the presence registry, room joins and typing handlers *)
(* of the socket layer (backend/src/socket/index.ts), the task diff engine *)
(* and the comment, attachment and reorder operations of TaskService       *)
(* (backend/src/services/user.service.ts) with their routes, and the       *)
(* message routes with the read-receipt, reaction and unread bookkeeping   *)
(* of MessageService.                                                      *)
(*                                                                         *)
(* The specifications share the variables:                                 *)
(*   SpecPresence  socket connect / disconnect                             *)
(*   SpecTask      createTask, updateTask (read step, write step),         *)
(*                 bulkUpdateStatus, deleteTask                            *)
(*   SpecAssign    createTask and updateTask with assignee lists           *)
(*   SpecAudit     every TaskService operation that writes a task          *)
(*   SpecTaskRoom  task updates with task room subscriptions               *)
(*   SpecReactSeq, SpecReact   addReaction / removeReaction, one call at a *)
(*                 time and interleaved                                    *)
(*   SpecRead      markAsRead / markConversationAsRead interleaved         *)
(*   SpecInbox     the message routes, one call at a time                  *)
(*   SpecUnread    getUnreadCount with channel room membership             *)
(*   SpecDispatch  message sends with room joins and leaves                *)
(*   SpecTyping    typing events with room joins and leaves                *)
(*   SpecDelivery  publishing handlers with stalled transports             *)
(*   SpecGone      disconnects with room joins and message sends           *)
(*   SpecComment   comments added, edited and deleted by the users         *)
(*   SpecEdit      editMessage (findOne step, save step), deleteMessage    *)
(*   SpecDiff      updateTask over status, priority, due date and          *)
(*                 assignees together                                      *)
(*   SpecConversations  getConversations over channel and direct messages  *)
(*   SpecMissing   mutating requests on ids that name no stored document   *)
(*   SpecRace      updateTask requests whose reads and writes interleave   *)
(*   SpecDetach    removeAttachment requests whose reads and writes        *)
(*                 interleave                                              *)
(*   SpecPrivate   direct messages and their events with connections       *)
(*   SpecRooms     room joins and leaves by names the client chooses       *)
(***************************************************************************)
EXTENDS Integers, Sequences, FiniteSets, TLC

\* ------------------------------------------------------------------ bounds
NumUsers == 2
NumAssignable == 3
NumMsgs == 2
NumRaceMsgs == 1
NumCalls == 2
NumEmojis == 2
NumSockets == 3

NumTasks == 1
NumReqs == 2
NumStatuses == 3
NumPriorities == 2
NumDates == 3
TicksPerDay == 2
NumTimes == 2
MaxActivities == 3
MaxDiffActivities == 6
MaxRaceActivities == 4
MaxDetachActivities == 4
MaxAssignees == 2
NumActors == 1

Users == 1..NumUsers
Sockets == 1..NumSockets
TaskIds == 1..NumTasks
Reqs == 1..NumReqs
Assignable == 1..NumAssignable
MsgIds == 1..NumMsgs
RaceMsgIds == 1..NumRaceMsgs
Calls == 1..NumCalls
Emojis == 1..NumEmojis
Channels == {"general", "dev"}

\* TaskStatus, with the schema default 'todo' first
StatusEnum == <<"todo", "done", "in_progress", "backlog", "in_review", "archived">>
Statuses == {StatusEnum[i] : i \in 1..NumStatuses}
DefaultStatus == "todo"

\* TaskPriority, with the schema default 'medium' first
PriorityEnum == <<"medium", "high", "low", "urgent">>
Priorities == {PriorityEnum[i] : i \in 1..NumPriorities}
DefaultPriority == "medium"

\* Instants (new Date()) and due dates in ticks; an optional value is the
\* empty set (undefined / null) or a singleton.
Times == 1..NumTimes
Dates == 0..(NumDates - 1)
Titles == {"t1", "t2"}

\* A user id that a token can carry but that User.findById does not return
\* as an active user.
InactiveUser == NumUsers + 1

\* socket.join('channel:general')
GeneralChannel == "general"

VARIABLES
  sockState,     \* socket id -> "new" | "rejected" | "open" | "closed"
  sockUser,      \* socket id -> socket.userId (InactiveUser while unset)
  onlineUsers,   \* the Map<userId, Set<socketId>> of the socket module
  rooms,         \* socket id -> set of rooms the socket has joined
  emitted,       \* io.emit('user:online', ...) broadcasts, in order
  tasks,         \* the Task collection: task id -> document
  taskUsed,      \* task ids already allocated (an ObjectId is never reused)
  req,           \* updateTask calls: request slot -> its position and locals
  messages,      \* the Message collection: message id -> document
  calls,         \* MessageService calls: call slot -> its position and locals
  outbox,        \* the publishes of the latest route or socket handler, in order
  response,      \* the HTTP response of the latest route handler
  deaf           \* open connections whose transport no longer delivers

socketVars == <<sockState, sockUser, onlineUsers, rooms, emitted>>
taskVars == <<tasks, taskUsed, req>>
messageVars == <<messages, calls>>
routeVars == <<outbox, response, deaf>>

\* ---------------------------------------------------------------- helpers
InSeq(x, s) == \E i \in 1..Len(s) : s[i] = x
Range(s) == {s[i] : i \in 1..Len(s)}
TheOne(S) == CHOOSE x \in S : TRUE

\* ------------------------------------------------------------ socket layer
UserRoom(u) == [kind |-> "user", name |-> ToString(u)]
ChannelRoom(c) == [kind |-> "channel", name |-> c]

\* The name socket.io knows a room by: `user:${userId}`, `channel:${channel}`,
\* `task:${taskId}`
WireName(room) == room.kind \o ":" \o room.name

Tokens == [present : BOOLEAN, valid : BOOLEAN, userId : Users \cup {InactiveUser}]

\* The middleware decoding the token without verifying its signature.
AuthenticateUnverified(tok) ==
  IF ~tok.present THEN InactiveUser
  ELSE IF tok.userId \notin Users THEN InactiveUser
  ELSE tok.userId

\* io.use(...): the user id the connection is authenticated as, or
\* InactiveUser when next(new Error(...)) rejects it.
Authenticate(tok) ==
  IF ~tok.present THEN InactiveUser
  ELSE IF ~tok.valid THEN InactiveUser
  ELSE IF tok.userId \notin Users THEN InactiveUser
  ELSE tok.userId

OnlineEvent(u, on) == [event |-> "user:online", userId |-> u, online |-> on]

\* if (!onlineUsers.has(userId)) onlineUsers.set(userId, new Set());
\* onlineUsers.get(userId)!.add(socket.id);
PresenceAdd(map, u, s) ==
  LET m1 == IF u \in DOMAIN map THEN map ELSE map @@ (u :> {})
  IN  [m1 EXCEPT ![u] = @ \cup {s}]

\* Last-writer-wins presence: any disconnect drops the user.
PresenceRemoveLastWriterWins(map, u, s) ==
  [x \in DOMAIN map \ {u} |-> map[x]]

\* The user is dropped with the last connection, but a connection that is
\* not the last one stays in the set.
PresenceRemoveOnlyLast(map, u, s) ==
  IF u \in DOMAIN map /\ map[u] = {s}
  THEN [x \in DOMAIN map \ {u} |-> map[x]]
  ELSE map

\* userSockets.delete(socket.id); if (userSockets.size === 0) onlineUsers.delete(userId)
PresenceRemove(map, u, s) ==
  IF u \in DOMAIN map
  THEN LET rest == map[u] \ {s}
       IN  IF rest = {}
           THEN [x \in DOMAIN map \ {u} |-> map[x]]
           ELSE [map EXCEPT ![u] = rest]
  ELSE map

\* An offline broadcast on every disconnect.
DisconnectEmitsAlways(map, u, s) ==
  <<OnlineEvent(u, FALSE)>>

\* if (userSockets.size === 0) io.emit('user:online', { userId, online: false })
DisconnectEmits(map, u, s) ==
  IF u \in DOMAIN map /\ map[u] \ {s} = {}
  THEN <<OnlineEvent(u, FALSE)>>
  ELSE <<>>

\* io.emit('user:online', { userId, online: true }) in the connection handler
ConnectEmits(map, u, s) ==
  <<OnlineEvent(u, TRUE)>>

\* getOnlineUsers()
GetOnlineUsers == DOMAIN onlineUsers

\* isUserOnline(userId)
IsUserOnline(u) == u \in DOMAIN onlineUsers /\ Cardinality(onlineUsers[u]) > 0

\* The authentication middleware rejects the handshake.
ConnectRejected(s, tok) ==
  /\ sockState[s] = "new"
  /\ Authenticate(tok) = InactiveUser
  /\ sockState' = [sockState EXCEPT ![s] = "rejected"]
  /\ UNCHANGED <<sockUser, onlineUsers, rooms, emitted>>
  /\ UNCHANGED <<taskVars, messageVars, routeVars>>

\* io.on('connection', ...)
Connect(s, tok) ==
  /\ sockState[s] = "new"
  /\ Authenticate(tok) # InactiveUser
  /\ LET u == Authenticate(tok)
     IN  /\ sockState' = [sockState EXCEPT ![s] = "open"]
         /\ sockUser' = [sockUser EXCEPT ![s] = u]
         /\ emitted' = emitted \o ConnectEmits(onlineUsers, u, s)
         /\ onlineUsers' = PresenceAdd(onlineUsers, u, s)
         /\ rooms' = [rooms EXCEPT ![s] = {UserRoom(u), ChannelRoom(GeneralChannel)}]
  /\ UNCHANGED <<taskVars, messageVars, routeVars>>

\* socket.on('disconnect', ...)
Disconnect(s) ==
  /\ sockState[s] = "open"
  /\ LET u == sockUser[s]
     IN  /\ sockState' = [sockState EXCEPT ![s] = "closed"]
         /\ emitted' = emitted \o DisconnectEmits(onlineUsers, u, s)
         /\ onlineUsers' = PresenceRemove(onlineUsers, u, s)
         /\ rooms' = [rooms EXCEPT ![s] = {}]
         /\ UNCHANGED sockUser
  /\ deaf' = deaf \ {s}
  /\ UNCHANGED <<outbox, response>>
  /\ UNCHANGED <<taskVars, messageVars>>

SocketInit ==
  /\ sockState = [s \in Sockets |-> "new"]
  /\ sockUser = [s \in Sockets |-> InactiveUser]
  /\ onlineUsers = << >>
  /\ rooms = [s \in Sockets |-> {}]
  /\ emitted = << >>

\* ------------------------------------------------------------ room router
TaskRoom(t) == [kind |-> "task", name |-> ToString(t)]

\* The target of io.emit(...): every connected socket.
Broadcast == [kind |-> "broadcast", name |-> "*"]

\* The connections a publish to a room addresses: the open sockets that have
\* joined it (every open socket for io.emit).
Subscribers(room) ==
  {s \in Sockets : sockState[s] = "open" /\ (room = Broadcast \/ room \in rooms[s])}

\* One publish: the event, the room, the connections it addresses and the
\* ones it reaches (a stalled transport does not deliver).
Publish(event, room, targets) ==
  [event |-> event, room |-> room, targets |-> targets, reached |-> targets \ deaf]

\* io.emit(event, ...)
IoEmit(event) == Publish(event, Broadcast, Subscribers(Broadcast))

\* io.to(room).emit(event, ...)
IoTo(room, event) == Publish(event, room, Subscribers(room))

\* Typing echoed to the whole room, the originating socket included.
SocketToWithEcho(s, room, event) == Publish(event, room, Subscribers(room))

\* socket.to(room).emit(event, ...): the room without the socket itself
SocketTo(s, room, event) == Publish(event, room, Subscribers(room) \ {s})

NoResponse == [code |-> 0]
Respond(code) == [code |-> code]

\* Every connection a publish addressed was reached.
Delivered(pubs) == \A i \in 1..Len(pubs) : pubs[i].reached = pubs[i].targets

\* A handler that answers 500 when a publish did not reach a connection.
AfterPublishSurfaced(res, pubs) ==
  IF Delivered(pubs) THEN res ELSE Respond(500)

\* io.emit(...); res.json(...): emit returns nothing the handler looks at,
\* the response written after the publishes is the one prepared before them.
AfterPublish(res, pubs) ==
  res

\* socket.on('channel:join', ...)
ChannelJoin(s, ch) ==
  /\ sockState[s] = "open"
  /\ rooms' = [rooms EXCEPT ![s] = @ \cup {ChannelRoom(ch)}]
  /\ UNCHANGED <<sockState, sockUser, onlineUsers, emitted>>
  /\ UNCHANGED <<taskVars, messageVars, routeVars>>

\* channel:leave leaving the room of the name the client sent, unprefixed.
ChannelLeaveUnprefixed(s, ch) ==
  /\ sockState[s] = "open"
  /\ rooms' = [rooms EXCEPT ![s] = {r \in @ : WireName(r) # ch}]
  /\ UNCHANGED <<sockState, sockUser, onlineUsers, emitted>>
  /\ UNCHANGED <<taskVars, messageVars, routeVars>>

\* socket.on('channel:leave', ...)
ChannelLeave(s, ch) ==
  /\ sockState[s] = "open"
  /\ rooms' = [rooms EXCEPT ![s] = @ \ {ChannelRoom(ch)}]
  /\ UNCHANGED <<sockState, sockUser, onlineUsers, emitted>>
  /\ UNCHANGED <<taskVars, messageVars, routeVars>>

\* socket.on('task:subscribe', ...)
TaskSubscribe(s, t) ==
  /\ sockState[s] = "open"
  /\ rooms' = [rooms EXCEPT ![s] = @ \cup {TaskRoom(t)}]
  /\ UNCHANGED <<sockState, sockUser, onlineUsers, emitted>>
  /\ UNCHANGED <<taskVars, messageVars, routeVars>>

\* socket.on('task:unsubscribe', ...)
TaskUnsubscribe(s, t) ==
  /\ sockState[s] = "open"
  /\ rooms' = [rooms EXCEPT ![s] = @ \ {TaskRoom(t)}]
  /\ UNCHANGED <<sockState, sockUser, onlineUsers, emitted>>
  /\ UNCHANGED <<taskVars, messageVars, routeVars>>

\* The publishes of a typing handler: to the channel room if data.channel,
\* else to the recipient's personal room if data.recipientId, else none.
TypingEmits(s, data) ==
  IF data.channel # {}
  THEN <<SocketTo(s, ChannelRoom(TheOne(data.channel)), "typing")>>
  ELSE IF data.recipientId # {}
       THEN <<SocketTo(s, UserRoom(TheOne(data.recipientId)), "typing")>>
       ELSE << >>

\* socket.on('typing:start', ...) and socket.on('typing:stop', ...)
Typing(s, data, typing) ==
  /\ sockState[s] = "open"
  /\ outbox' = [i \in 1..Len(TypingEmits(s, data)) |->
                  TypingEmits(s, data)[i] @@ [userId |-> sockUser[s], typing |-> typing,
                                               origin |-> s]]
  /\ UNCHANGED <<response, deaf>>
  /\ UNCHANGED <<socketVars, taskVars, messageVars>>

\* The transport of an open connection stops delivering (the disconnect has
\* not been noticed yet).
TransportStall(s) ==
  /\ sockState[s] = "open"
  /\ s \notin deaf
  /\ deaf' = deaf \cup {s}
  /\ UNCHANGED <<outbox, response>>
  /\ UNCHANGED <<socketVars, taskVars, messageVars>>

RouteInit ==
  /\ outbox = << >>
  /\ response = NoResponse
  /\ deaf = {}

\* ------------------------------------------------------------- task store
\* Array.prototype.sort() on id strings of equal length
SortIds(s) == SortSeq(s, LAMBDA a, b : a < b)

\* new Date(d).toISOString().split('T')[0]: the UTC calendar day of an instant
IsoDay(d) == d \div TicksPerDay

\* task.dueDate?.toISOString().split('T')[0]
OldDate(task) ==
  IF task.dueDate = {} THEN <<"undefined">> ELSE <<"day", IsoDay(TheOne(task.dueDate))>>

\* updates.dueDate ? new Date(updates.dueDate).toISOString().split('T')[0] : null
NewDate(v) ==
  IF v = {} THEN <<"null">> ELSE <<"day", IsoDay(TheOne(v))>>

Activity(type, actor, metadata) ==
  [type |-> type, actor |-> actor, metadata |-> metadata]
NoMetadata == [none |-> TRUE]

Has(updates, key) == key \in DOMAIN updates

\* updates.assignees.sort() sorts the proposal's array in place.
SortedUpdates(updates) ==
  IF Has(updates, "assignees")
  THEN [updates EXCEPT !["assignees"] = SortIds(@)]
  ELSE updates

\* The status rule left out: a status change is reported as a general update.
StatusRuleDropped(task, updates, actor) ==
  << >>

\* The status rule reporting the schema default as the former status.
StatusRuleFromDefault(task, updates, actor) ==
  IF Has(updates, "status") /\ updates.status # task.status
  THEN <<Activity("status_changed", actor, [from |-> DefaultStatus, to |-> updates.status])>>
  ELSE << >>

\* if (updates.status && updates.status !== task.status) activities.push(...)
StatusRule(task, updates, actor) ==
  IF Has(updates, "status") /\ updates.status # task.status
  THEN <<Activity("status_changed", actor, [from |-> task.status, to |-> updates.status])>>
  ELSE << >>

\* if (updates.priority && updates.priority !== task.priority) activities.push(...)
PriorityRule(task, updates, actor) ==
  IF Has(updates, "priority") /\ updates.priority # task.priority
  THEN <<Activity("priority_changed", actor, [from |-> task.priority, to |-> updates.priority])>>
  ELSE << >>

\* if (updates.dueDate !== undefined) { if (oldDate !== newDate) activities.push(...) }
DueDateRule(task, updates, actor) ==
  IF Has(updates, "dueDate") /\ OldDate(task) # NewDate(updates.dueDate)
  THEN <<Activity("due_date_changed", actor,
                  [from |-> OldDate(task), to |-> NewDate(updates.dueDate)])>>
  ELSE << >>

\* The assignee rule reporting the whole new list as added and the whole old
\* list as removed.
AssigneeRuleNoDiff(task, updates, actor) ==
  IF Has(updates, "assignees")
  THEN LET oldAssignees == SortIds(task.assignees)
           newAssignees == SortIds(updates.assignees)
       IN  IF oldAssignees # newAssignees
           THEN (IF Len(newAssignees) > 0
                 THEN <<Activity("assigned", actor, [added |-> newAssignees])>>
                 ELSE << >>)
                \o
                (IF Len(oldAssignees) > 0
                 THEN <<Activity("unassigned", actor, [removed |-> oldAssignees])>>
                 ELSE << >>)
           ELSE << >>
  ELSE << >>

\* if (updates.assignees) { ... added / removed ... }
AssigneeRule(task, updates, actor) ==
  IF Has(updates, "assignees")
  THEN LET oldAssignees == SortIds(task.assignees)
           newAssignees == SortIds(updates.assignees)
       IN  IF oldAssignees # newAssignees
           THEN LET added == SelectSeq(newAssignees, LAMBDA a : ~InSeq(a, oldAssignees))
                    removed == SelectSeq(oldAssignees, LAMBDA a : ~InSeq(a, newAssignees))
                IN  (IF Len(added) > 0
                     THEN <<Activity("assigned", actor, [added |-> added])>>
                     ELSE << >>)
                    \o
                    (IF Len(removed) > 0
                     THEN <<Activity("unassigned", actor, [removed |-> removed])>>
                     ELSE << >>)
           ELSE << >>
  ELSE << >>

\* The general rule without the test of the activities found so far.
GeneralRuleAlways(found, updates, actor) ==
  IF DOMAIN updates # {}
  THEN <<Activity("updated", actor, [fields |-> DOMAIN updates])>>
  ELSE << >>

\* if (activities.length === 0 && Object.keys(updates).length > 0) activities.push(...)
GeneralRule(found, updates, actor) ==
  IF Len(found) = 0 /\ DOMAIN updates # {}
  THEN <<Activity("updated", actor, [fields |-> DOMAIN updates])>>
  ELSE << >>

\* The rules as an else-if chain: the first rule that fires is the only one.
ComputeActivitiesFirstOnly(task, updates, actor) ==
  LET s == StatusRule(task, updates, actor)
      p == PriorityRule(task, updates, actor)
      d == DueDateRule(task, updates, actor)
      a == AssigneeRule(task, updates, actor)
      found == IF s # << >> THEN s ELSE IF p # << >> THEN p ELSE IF d # << >> THEN d ELSE a
  IN  found \o GeneralRule(found, updates, actor)

\* The activities updateTask computes from the document it read.
ComputeActivities(task, updates, actor) ==
  LET found == StatusRule(task, updates, actor)
               \o PriorityRule(task, updates, actor)
               \o DueDateRule(task, updates, actor)
               \o AssigneeRule(task, updates, actor)
  IN  found \o GeneralRule(found, updates, actor)

\* findByIdAndUpdate runs no save middleware, the document keeps its completedAt
\* (this is what the code does).
UpdateCompletedAt(task, updates) ==
  task.completedAt

\* taskSchema.pre('save'): completedAt follows status when status is modified
PreSave(doc, statusModified, now) ==
  IF statusModified
  THEN IF doc.status = "done" /\ doc.completedAt = {}
       THEN [doc EXCEPT !.completedAt = {now}]
       ELSE IF doc.status # "done"
            THEN [doc EXCEPT !.completedAt = {}]
            ELSE doc
  ELSE doc

\* The write with the fields set and the activities left for a later write.
ApplyUpdateFieldsOnly(task, updates, activities) ==
  [status      |-> IF Has(updates, "status") THEN updates.status ELSE task.status,
   priority    |-> IF Has(updates, "priority") THEN updates.priority ELSE task.priority,
   dueDate     |-> IF Has(updates, "dueDate") THEN updates.dueDate ELSE task.dueDate,
   assignees   |-> IF Has(updates, "assignees") THEN updates.assignees ELSE task.assignees,
   title       |-> IF Has(updates, "title") THEN updates.title ELSE task.title,
   completedAt |-> task.completedAt,
   comments    |-> task.comments,
   attachments |-> task.attachments,
   order       |-> task.order,
   activities  |-> task.activities]

\* Task.findByIdAndUpdate(taskId, { ...updates, $push: { activities: { $each } } })
ApplyUpdate(task, updates, activities) ==
  [status      |-> IF Has(updates, "status") THEN updates.status ELSE task.status,
   priority    |-> IF Has(updates, "priority") THEN updates.priority ELSE task.priority,
   dueDate     |-> IF Has(updates, "dueDate") THEN updates.dueDate ELSE task.dueDate,
   assignees   |-> IF Has(updates, "assignees") THEN updates.assignees ELSE task.assignees,
   title       |-> IF Has(updates, "title") THEN updates.title ELSE task.title,
   completedAt |-> UpdateCompletedAt(task, updates),
   comments    |-> task.comments,
   attachments |-> task.attachments,
   order       |-> task.order,
   activities  |-> task.activities \o activities]

\* new Task({ ...data, createdBy, assignees, activities: [created] }) with the
\* schema defaults, then save()
NewTask(data, actor, now) ==
  PreSave(
    [status      |-> IF Has(data, "status") THEN data.status ELSE DefaultStatus,
     priority    |-> IF Has(data, "priority") THEN data.priority ELSE DefaultPriority,
     dueDate     |-> IF Has(data, "dueDate") THEN data.dueDate ELSE {},
     assignees   |-> IF Has(data, "assignees") THEN data.assignees ELSE << >>,
     title       |-> data.title,
     completedAt |-> {},
     comments    |-> << >>,
     attachments |-> << >>,
     order       |-> 0,
     activities  |-> <<Activity("created", actor, NoMetadata)>>],
    Has(data, "status"), now)

IdleReq == [pc |-> "idle"]

\* createTask(data, createdById)
CreateTask(t, data, actor, now) ==
  /\ t \notin taskUsed
  /\ tasks' = tasks @@ (t :> NewTask(data, actor, now))
  /\ taskUsed' = taskUsed \cup {t}
  /\ outbox' = <<IoEmit("task:created") @@ [taskId |-> t]>>
  /\ response' = Respond(201)
  /\ UNCHANGED <<req, deaf>>
  /\ UNCHANGED <<socketVars, messageVars>>

\* updateTask, up to the await of findById: the snapshot is read and the
\* activities are computed from it.
UpdateTaskRead(r, t, updates, actor) ==
  /\ req[r].pc = "idle"
  /\ t \in DOMAIN tasks
  /\ req' = [req EXCEPT ![r] =
               [pc |-> "loaded", taskId |-> t, actor |-> actor,
                snapshot |-> tasks[t],
                updates |-> SortedUpdates(updates),
                activities |-> ComputeActivities(tasks[t], updates, actor)]]
  /\ UNCHANGED <<tasks, taskUsed>>
  /\ UNCHANGED <<socketVars, messageVars, routeVars>>

\* The PATCH handler publishing task:updated whatever updateTask returned.
PatchTaskEmitsAlways(t, found) ==
  <<IoEmit("task:updated") @@ [taskId |-> t]>>

\* PATCH /api/tasks/:id: if (!task) 404 and return, else io.emit('task:updated', task)
PatchTaskEmits(t, found) ==
  IF found THEN <<IoEmit("task:updated") @@ [taskId |-> t]>> ELSE << >>

PatchTaskResponse(found) == IF found THEN Respond(200) ELSE Respond(404)

\* updateTask called with an id that findById does not find: return null.
UpdateTaskNotFound(r, t, updates, actor) ==
  /\ req[r].pc = "idle"
  /\ t \notin DOMAIN tasks
  /\ outbox' = PatchTaskEmits(t, FALSE)
  /\ response' = PatchTaskResponse(FALSE)
  /\ UNCHANGED <<tasks, taskUsed, req, deaf>>
  /\ UNCHANGED <<socketVars, messageVars>>

\* updateTask, the findByIdAndUpdate write (nothing is written and null is
\* returned when the task is gone), and the rest of the PATCH handler; the
\* activities of a task are kept within cap.
UpdateTaskWriteUpTo(r, cap) ==
  /\ req[r].pc = "loaded"
  /\ LET t == req[r].taskId
     IN  /\ IF t \in DOMAIN tasks
            THEN /\ Len(tasks[t].activities) + Len(req[r].activities) <= cap
                 /\ tasks' = [tasks EXCEPT ![t] = ApplyUpdate(@, req[r].updates, req[r].activities)]
            ELSE UNCHANGED tasks
         /\ outbox' = PatchTaskEmits(t, t \in DOMAIN tasks)
         /\ response' = AfterPublish(PatchTaskResponse(t \in DOMAIN tasks),
                                     PatchTaskEmits(t, t \in DOMAIN tasks))
  /\ req' = [req EXCEPT ![r] = IdleReq]
  /\ UNCHANGED <<taskUsed, deaf>>
  /\ UNCHANGED <<socketVars, messageVars>>

UpdateTaskWrite(r) == UpdateTaskWriteUpTo(r, MaxActivities)

\* The bulk update with activities under $set: the list is replaced.
BulkStatusDocOverwrite(task, status, actor) ==
  [task EXCEPT !.status = status,
               !.activities = <<Activity("status_changed", actor, NoMetadata)>>]

\* bulkUpdateStatus(taskIds, status, actorId): $set status and $push one
\* status_changed activity on every listed task
BulkStatusDoc(task, status, actor) ==
  [task EXCEPT !.status = status,
               !.activities = Append(@, Activity("status_changed", actor, NoMetadata))]

BulkUpdateStatus(ids, status, actor) ==
  /\ ids \cap DOMAIN tasks # {}
  /\ \A t \in ids \cap DOMAIN tasks : Len(tasks[t].activities) < MaxActivities
  /\ tasks' = [t \in DOMAIN tasks |->
                 IF t \in ids THEN BulkStatusDoc(tasks[t], status, actor) ELSE tasks[t]]
  /\ outbox' = <<IoEmit("tasks:bulk-updated") @@ [taskIds |-> ids]>>
  /\ response' = Respond(200)
  /\ UNCHANGED <<taskUsed, req, deaf>>
  /\ UNCHANGED <<socketVars, messageVars>>

\* deleteTask(taskId): Task.findByIdAndDelete
DeleteTask(t) ==
  /\ t \in DOMAIN tasks
  /\ tasks' = [x \in DOMAIN tasks \ {t} |-> tasks[x]]
  /\ outbox' = <<IoEmit("task:deleted") @@ [taskId |-> t]>>
  /\ response' = Respond(200)
  /\ UNCHANGED <<taskUsed, req, deaf>>
  /\ UNCHANGED <<socketVars, messageVars>>

\* DELETE /api/tasks/:id with an id findByIdAndDelete does not find:
\* if (!success) 404 and return
DeleteTaskNotFound(t) ==
  /\ t \notin DOMAIN tasks
  /\ outbox' = << >>
  /\ response' = Respond(404)
  /\ UNCHANGED <<tasks, taskUsed, req, deaf>>
  /\ UNCHANGED <<socketVars, messageVars>>

\* The _id of a new comment or attachment subdocument: never one that the
\* task has used before.
FreshId(task) ==
  1 + Cardinality({i \in 1..Len(task.activities) :
                     task.activities[i].type \in {"comment_added", "attachment_added"}})

HasComment(task, cid) == \E i \in 1..Len(task.comments) : task.comments[i].id = cid
CommentOf(task, cid) ==
  task.comments[CHOOSE i \in 1..Len(task.comments) : task.comments[i].id = cid]
HasAttachment(task, aid) == \E i \in 1..Len(task.attachments) : task.attachments[i].id = aid

\* addComment: { $push: { comments: comment, activities: activity } }
PushComment(task, content, author, now) ==
  [task EXCEPT !.comments = Append(@, [id |-> FreshId(task), author |-> author,
                                       content |-> content, createdAt |-> now,
                                       updatedAt |-> now, isEdited |-> FALSE]),
               !.activities = Append(@, Activity("comment_added", author, NoMetadata))]

\* updateComment: { _id, 'comments._id': commentId }, { $set: { 'comments.$.content', ... } }
SetComment(task, cid, content, now) ==
  IF HasComment(task, cid)
  THEN LET i == CHOOSE k \in 1..Len(task.comments) :
                  /\ task.comments[k].id = cid
                  /\ \A j \in 1..(k - 1) : task.comments[j].id # cid
       IN  [task EXCEPT !.comments[i].content = content, !.comments[i].updatedAt = now,
                        !.comments[i].isEdited = TRUE]
  ELSE task

\* deleteComment: { $pull: { comments: { _id: commentId } } }
PullComment(task, cid) ==
  [task EXCEPT !.comments = SelectSeq(@, LAMBDA c : c.id # cid)]

\* addAttachment: { $push: { attachments: attachmentData, activities: activity } }
PushAttachment(task, user) ==
  [task EXCEPT !.attachments = Append(@, [id |-> FreshId(task), uploadedBy |-> user]),
               !.activities = Append(@, Activity("attachment_added", user, NoMetadata))]

\* removeAttachment: { $pull: { attachments: { _id } }, $push: { activities: activity } }
PullAttachment(task, aid, user) ==
  [task EXCEPT !.attachments = SelectSeq(@, LAMBDA a : a.id # aid),
               !.activities = Append(@, Activity("attachment_removed", user, NoMetadata))]

\* POST /api/tasks/:id/comments: addComment, then 404 or io.emit('task:comment') and 201
AddComment(t, content, author, now) ==
  /\ IF t \in DOMAIN tasks
     THEN /\ Len(tasks[t].activities) < MaxActivities
          /\ tasks' = [tasks EXCEPT ![t] = PushComment(@, content, author, now)]
          /\ outbox' = <<IoEmit("task:comment") @@ [taskId |-> t]>>
          /\ response' = AfterPublish(Respond(201), <<IoEmit("task:comment")>>)
     ELSE /\ UNCHANGED tasks
          /\ outbox' = << >>
          /\ response' = Respond(404)
  /\ UNCHANGED <<taskUsed, req, deaf>>
  /\ UNCHANGED <<socketVars, messageVars>>

\* The comment guard with the author test left out.
CommentGuardAnyUser(task, cid, user) ==
  HasComment(task, cid)

\* const comment = task.comments.find(c => c._id.toString() === commentId);
\* !(!comment || comment.author.toString() !== userId)
CommentGuard(task, cid, user) ==
  HasComment(task, cid) /\ CommentOf(task, cid).author = user

\* updateComment up to its write: null for a missing task (the route answers
\* 200 with it), an error for a missing comment or another author (400).
UpdateCommentRead(r, t, cid, content, user) ==
  /\ req[r].pc = "idle"
  /\ IF t \notin DOMAIN tasks
     THEN /\ response' = Respond(200)
          /\ outbox' = << >>
          /\ UNCHANGED req
     ELSE IF ~CommentGuard(tasks[t], cid, user)
          THEN /\ response' = Respond(400)
               /\ outbox' = << >>
               /\ UNCHANGED req
          ELSE /\ req' = [req EXCEPT ![r] = [pc |-> "updateComment", taskId |-> t,
                                             commentId |-> cid, content |-> content,
                                             user |-> user]]
               /\ UNCHANGED <<response, outbox>>
  /\ UNCHANGED <<tasks, taskUsed, deaf>>
  /\ UNCHANGED <<socketVars, messageVars>>

\* updateComment: the findOneAndUpdate with the new Date() of its update
\* document, and the response of the route
UpdateCommentWrite(r, now) ==
  /\ req[r].pc = "updateComment"
  /\ LET t == req[r].taskId
     IN  tasks' = IF t \in DOMAIN tasks
                  THEN [tasks EXCEPT ![t] = SetComment(@, req[r].commentId, req[r].content, now)]
                  ELSE tasks
  /\ req' = [req EXCEPT ![r] = IdleReq]
  /\ response' = Respond(200)
  /\ outbox' = << >>
  /\ UNCHANGED <<taskUsed, deaf>>
  /\ UNCHANGED <<socketVars, messageVars>>

\* deleteComment up to its write: false for a missing task, a missing comment
\* or another author (the route answers 404).
DeleteCommentRead(r, t, cid, user) ==
  /\ req[r].pc = "idle"
  /\ IF t \notin DOMAIN tasks \/ ~CommentGuard(tasks[t], cid, user)
     THEN /\ response' = Respond(404)
          /\ outbox' = << >>
          /\ UNCHANGED req
     ELSE /\ req' = [req EXCEPT ![r] = [pc |-> "deleteComment", taskId |-> t,
                                        commentId |-> cid, user |-> user]]
          /\ UNCHANGED <<response, outbox>>
  /\ UNCHANGED <<tasks, taskUsed, deaf>>
  /\ UNCHANGED <<socketVars, messageVars>>

\* deleteComment: the findByIdAndUpdate with $pull, and the response of the route
DeleteCommentWrite(r) ==
  /\ req[r].pc = "deleteComment"
  /\ LET t == req[r].taskId
     IN  tasks' = IF t \in DOMAIN tasks
                  THEN [tasks EXCEPT ![t] = PullComment(@, req[r].commentId)]
                  ELSE tasks
  /\ req' = [req EXCEPT ![r] = IdleReq]
  /\ response' = Respond(200)
  /\ outbox' = << >>
  /\ UNCHANGED <<taskUsed, deaf>>
  /\ UNCHANGED <<socketVars, messageVars>>

\* POST /api/upload/task/:taskId: addAttachment, then 404 or 201
AddAttachment(t, user) ==
  /\ IF t \in DOMAIN tasks
     THEN /\ Len(tasks[t].activities) < MaxActivities
          /\ tasks' = [tasks EXCEPT ![t] = PushAttachment(@, user)]
          /\ response' = Respond(201)
     ELSE /\ UNCHANGED tasks
          /\ response' = Respond(404)
  /\ outbox' = << >>
  /\ UNCHANGED <<taskUsed, req, deaf>>
  /\ UNCHANGED <<socketVars, messageVars>>

\* removeAttachment up to its write: false for a missing task or attachment
RemoveAttachmentRead(r, t, aid, user) ==
  /\ req[r].pc = "idle"
  /\ IF t \notin DOMAIN tasks \/ ~HasAttachment(tasks[t], aid)
     THEN /\ response' = Respond(404)
          /\ outbox' = << >>
          /\ UNCHANGED req
     ELSE /\ req' = [req EXCEPT ![r] = [pc |-> "removeAttachment", taskId |-> t,
                                        attachmentId |-> aid, user |-> user]]
          /\ UNCHANGED <<response, outbox>>
  /\ UNCHANGED <<tasks, taskUsed, deaf>>
  /\ UNCHANGED <<socketVars, messageVars>>

\* removeAttachment: the findByIdAndUpdate with $pull and $push, and the
\* response of the route; the activities of a task are kept within cap.
RemoveAttachmentWriteUpTo(r, cap) ==
  /\ req[r].pc = "removeAttachment"
  /\ LET t == req[r].taskId
     IN  IF t \in DOMAIN tasks
         THEN /\ Len(tasks[t].activities) < cap
              /\ tasks' = [tasks EXCEPT ![t] =
                             PullAttachment(@, req[r].attachmentId, req[r].user)]
         ELSE UNCHANGED tasks
  /\ req' = [req EXCEPT ![r] = IdleReq]
  /\ response' = Respond(200)
  /\ outbox' = << >>
  /\ UNCHANGED <<taskUsed, deaf>>
  /\ UNCHANGED <<socketVars, messageVars>>

RemoveAttachmentWrite(r) == RemoveAttachmentWriteUpTo(r, MaxActivities)

\* The order reorderTasks leaves on task t: the index of its last updateOne
\* in the ordered bulkWrite, or the order it had.
OrderAfter(orderedTaskIds, t, order) ==
  IF InSeq(t, orderedTaskIds)
  THEN (CHOOSE i \in 1..Len(orderedTaskIds) :
          /\ orderedTaskIds[i] = t
          /\ \A j \in (i + 1)..Len(orderedTaskIds) : orderedTaskIds[j] # t) - 1
  ELSE order

\* POST /api/tasks/reorder: reorderTasks(orderedTaskIds)
ReorderTasks(orderedTaskIds) ==
  /\ tasks' = [t \in DOMAIN tasks |->
                 [tasks[t] EXCEPT !.order = OrderAfter(orderedTaskIds, t, @)]]
  /\ response' = Respond(200)
  /\ outbox' = << >>
  /\ UNCHANGED <<taskUsed, req, deaf>>
  /\ UNCHANGED <<socketVars, messageVars>>

TaskInit ==
  /\ tasks = << >>
  /\ taskUsed = {}
  /\ req = [r \in Reqs |-> IdleReq]

\* Partial<CreateTaskData>: a proposal is a function from the keys it carries
\* to their values.
Optional(key, values) == {<< >>} \cup {key :> v : v \in values}
AssigneeLists == UNION {[1..n -> Assignable] : n \in 0..MaxAssignees}

StatusProposals ==
  {s @@ ti : s \in Optional("status", Statuses), ti \in Optional("title", Titles)}
AssigneeProposals ==
  {a @@ ti : a \in Optional("assignees", AssigneeLists), ti \in Optional("title", {"t2"})}
CreateData ==
  {[title |-> "t1"] @@ s : s \in Optional("status", Statuses \ {"archived"})}
CreateDataAssigned ==
  {[title |-> "t1"] @@ a : a \in Optional("assignees", AssigneeLists)}

\* The actors of task requests.
Actors == 1..NumActors

\* Documents and proposals over status, priority, due date and assignees
\* together.
DueDateValues == {{}} \cup {{d} : d \in Dates}
DiffAssigneeLists == UNION {[1..n -> 1..MaxAssignees] : n \in 0..MaxAssignees}
DiffProposals ==
  {s @@ p @@ d @@ a :
     s \in Optional("status", Statuses), p \in Optional("priority", Priorities),
     d \in Optional("dueDate", DueDateValues), a \in Optional("assignees", DiffAssigneeLists)}
DiffCreateData ==
  {[title |-> "t1"] @@ s @@ p @@ d @@ a :
     s \in Optional("status", {"in_progress"}), p \in Optional("priority", {"high"}),
     d \in Optional("dueDate", {{d} : d \in Dates}),
     a \in Optional("assignees", {<<1>>, <<MaxAssignees, 1>>})}

\* Proposals over status and priority for requests that overlap.
RaceProposals ==
  {s @@ p : s \in Optional("status", Statuses), p \in Optional("priority", Priorities)}

\* Comment texts, subdocument ids and reorder lists of the requests.
Contents == {"c1", "c2"}
SubdocIds == 1..(MaxActivities - 1)
ReorderLists == UNION {[1..n -> TaskIds] : n \in 1..(NumTasks + 1)}
AuditProposals == {s @@ ti : s \in Optional("status", {"done"}), ti \in Optional("title", {"t2"})}

\* ---------------------------------------------------------- message store
\* new Message({ content, sender, recipient, channel, mentions }) with the
\* schema defaults and the createdAt of timestamps: true
Message(sender, data, now) ==
  [sender    |-> sender,
   recipient |-> data.recipient,
   channel   |-> data.channel,
   mentions  |-> data.mentions,
   content   |-> data.content,
   createdAt |-> now,
   isEdited  |-> FALSE,
   editedAt  |-> {},
   readBy    |-> << >>,
   reactions |-> << >>,
   isDeleted |-> FALSE,
   deletedAt |-> {}]

\* { 'reactions.emoji': emoji }: some entry of the array has that emoji
HasEmoji(reactions, e) == \E i \in 1..Len(reactions) : reactions[i].emoji = e

\* { 'reactions.users': userObjectId }: some entry's users hold the user
UserInAny(reactions, u) == \E i \in 1..Len(reactions) : InSeq(u, reactions[i].users)

\* The array position the positional operator $ binds: the first entry that
\* matches 'reactions.emoji': emoji.
Positional(reactions, e) ==
  CHOOSE i \in 1..Len(reactions) :
    /\ reactions[i].emoji = e
    /\ \A j \in 1..(i - 1) : reactions[j].emoji # e

\* The first updateOne of addReaction with no $ne guard on the users.
PushToExistingUnguarded(reactions, e, u) ==
  IF HasEmoji(reactions, e)
  THEN [reactions EXCEPT ![Positional(reactions, e)].users = Append(@, u)]
  ELSE reactions

\* addReaction, first updateOne:
\* { 'reactions.emoji': emoji, 'reactions.users': { $ne: user } },
\* { $push: { 'reactions.$.users': user } }
PushToExisting(reactions, e, u) ==
  IF HasEmoji(reactions, e) /\ ~UserInAny(reactions, u)
  THEN [reactions EXCEPT ![Positional(reactions, e)].users = Append(@, u)]
  ELSE reactions

\* The second updateOne of addReaction with no guard on the emoji.
PushNewEntryUnguarded(reactions, e, u) ==
  Append(reactions, [emoji |-> e, users |-> <<u>>])

\* addReaction, second updateOne:
\* { 'reactions.emoji': { $ne: emoji } }, { $push: { reactions: { emoji, users: [user] } } }
PushNewEntry(reactions, e, u) ==
  IF ~HasEmoji(reactions, e)
  THEN Append(reactions, [emoji |-> e, users |-> <<u>>])
  ELSE reactions

\* removeReaction, first updateOne:
\* { 'reactions.emoji': emoji }, { $pull: { 'reactions.$.users': user } }
PullUser(reactions, e, u) ==
  IF HasEmoji(reactions, e)
  THEN [reactions EXCEPT ![Positional(reactions, e)].users = SelectSeq(@, LAMBDA x : x # u)]
  ELSE reactions

\* removeReaction, second updateOne: { $pull: { reactions: { users: { $size: 0 } } } }
PruneEmpty(reactions) ==
  SelectSeq(reactions, LAMBDA en : Len(en.users) # 0)

\* The reactions a whole addReaction call leaves when nothing runs in between.
AddReactionSeq(reactions, e, u) ==
  LET first == PushToExisting(reactions, e, u)
  IN  IF first # reactions THEN first ELSE PushNewEntry(first, e, u)

\* The reactions a whole removeReaction call leaves when nothing runs in between.
RemoveReactionSeq(reactions, e, u) ==
  PruneEmpty(PullUser(reactions, e, u))

ReadByUsers(msg) == {msg.readBy[i].user : i \in 1..Len(msg.readBy)}

\* The $push of a read receipt with no 'readBy.user': { $ne: user } filter.
PushReadUnguarded(msg, u, now) ==
  [msg EXCEPT !.readBy = Append(@, [user |-> u, readAt |-> now])]

\* { 'readBy.user': { $ne: user } }, { $push: { readBy: { user, readAt: new Date() } } }
PushRead(msg, u, now) ==
  IF u \notin ReadByUsers(msg)
  THEN [msg EXCEPT !.readBy = Append(@, [user |-> u, readAt |-> now])]
  ELSE msg

\* The rest of the updateMany filter: markAsRead selects by _id, and
\* markConversationAsRead by channel and / or by counterpart.
Selected(sel, id, msg, u) ==
  IF sel.kind = "ids"
  THEN id \in sel.ids
  ELSE /\ (sel.channel # {} => msg.channel = sel.channel)
       /\ (sel.recipientId # {} =>
             (msg.sender = TheOne(sel.recipientId) /\ msg.recipient = {u}))

IdleCall == [pc |-> "idle"]

\* sendMessage(data, senderId): new Message(...).save()
SendMessage(m, data, sender, now) ==
  /\ m \notin DOMAIN messages
  /\ messages' = messages @@ (m :> Message(sender, data, now))
  /\ UNCHANGED calls
  /\ UNCHANGED <<socketVars, taskVars, routeVars>>

\* addReaction: the first Message.updateOne
AddReactionFirst(c, m, e, u) ==
  /\ calls[c].pc = "idle"
  /\ LET after == IF m \in DOMAIN messages
                  THEN PushToExisting(messages[m].reactions, e, u)
                  ELSE << >>
         modified == m \in DOMAIN messages /\ after # messages[m].reactions
     IN  /\ messages' = IF modified
                        THEN [messages EXCEPT ![m].reactions = after]
                        ELSE messages
         /\ calls' = [calls EXCEPT ![c] =
                        [pc |-> IF modified THEN "addReturn" ELSE "addSecond",
                         messageId |-> m, emoji |-> e, user |-> u]]
  /\ UNCHANGED <<socketVars, taskVars, routeVars>>

\* addReaction: if (updateResult.modifiedCount === 0) the second updateOne
AddReactionSecond(c) ==
  /\ calls[c].pc = "addSecond"
  /\ LET m == calls[c].messageId
     IN  messages' = IF m \in DOMAIN messages
                     THEN [messages EXCEPT ![m].reactions =
                             PushNewEntry(@, calls[c].emoji, calls[c].user)]
                     ELSE messages
  /\ calls' = [calls EXCEPT ![c].pc = "addReturn"]
  /\ UNCHANGED <<socketVars, taskVars, routeVars>>

\* The reaction routes after the service call: io.emit('message:reaction',
\* message) with the document findById returned, null included; no test of it.
ReactionEmits(m) == <<IoEmit("message:reaction") @@ [messageId |-> m]>>

\* res.json({ message }) of the reaction routes
ReactionResponse(m) == AfterPublish(Respond(200), ReactionEmits(m))

\* addReaction: return Message.findById(messageId), and the rest of
\* POST /api/messages/:id/reactions
AddReactionReturn(c) ==
  /\ calls[c].pc = "addReturn"
  /\ calls' = [calls EXCEPT ![c] = IdleCall]
  /\ outbox' = ReactionEmits(calls[c].messageId)
  /\ response' = ReactionResponse(calls[c].messageId)
  /\ UNCHANGED <<messages, deaf>>
  /\ UNCHANGED <<socketVars, taskVars>>

\* removeReaction: the first updateOne ($pull of the user)
RemoveReactionPull(c, m, e, u) ==
  /\ calls[c].pc = "idle"
  /\ messages' = IF m \in DOMAIN messages
                 THEN [messages EXCEPT ![m].reactions = PullUser(@, e, u)]
                 ELSE messages
  /\ calls' = [calls EXCEPT ![c] =
                 [pc |-> "removePrune", messageId |-> m, emoji |-> e, user |-> u]]
  /\ UNCHANGED <<socketVars, taskVars, routeVars>>

\* removeReaction: the second updateOne ($pull of the empty entries)
RemoveReactionPrune(c) ==
  /\ calls[c].pc = "removePrune"
  /\ LET m == calls[c].messageId
     IN  messages' = IF m \in DOMAIN messages
                     THEN [messages EXCEPT ![m].reactions = PruneEmpty(@)]
                     ELSE messages
  /\ calls' = [calls EXCEPT ![c].pc = "removeReturn"]
  /\ UNCHANGED <<socketVars, taskVars, routeVars>>

\* removeReaction: return Message.findById(messageId), and the rest of
\* DELETE /api/messages/:id/reactions/:emoji
RemoveReactionReturn(c) ==
  /\ calls[c].pc = "removeReturn"
  /\ calls' = [calls EXCEPT ![c] = IdleCall]
  /\ outbox' = ReactionEmits(calls[c].messageId)
  /\ response' = ReactionResponse(calls[c].messageId)
  /\ UNCHANGED <<messages, deaf>>
  /\ UNCHANGED <<socketVars, taskVars>>

\* markAsRead(messageIds, userId): Message.updateMany starts; readAt is the
\* new Date() of the update document.
MarkAsRead(c, ids, u, now) ==
  /\ calls[c].pc = "idle"
  /\ calls' = [calls EXCEPT ![c] =
                 [pc |-> "mark", user |-> u, now |-> now,
                  sel |-> [kind |-> "ids", ids |-> ids],
                  todo |-> ids \cap DOMAIN messages, visited |-> {}]]
  /\ UNCHANGED messages
  /\ UNCHANGED <<socketVars, taskVars, routeVars>>

\* markConversationAsRead(userId, { channel, recipientId }): Message.updateMany starts
MarkConversationAsRead(c, u, channel, recipientId, now) ==
  /\ calls[c].pc = "idle"
  /\ calls' = [calls EXCEPT ![c] =
                 [pc |-> "mark", user |-> u, now |-> now,
                  sel |-> [kind |-> "conversation", channel |-> channel,
                           recipientId |-> recipientId],
                  todo |-> DOMAIN messages, visited |-> {}]]
  /\ UNCHANGED messages
  /\ UNCHANGED <<socketVars, taskVars, routeVars>>

\* updateMany: one document is matched against the filter and updated, atomically
MarkStep(c, m) ==
  /\ calls[c].pc = "mark"
  /\ m \in calls[c].todo
  /\ messages' = IF Selected(calls[c].sel, m, messages[m], calls[c].user)
                 THEN [messages EXCEPT ![m] = PushRead(@, calls[c].user, calls[c].now)]
                 ELSE messages
  /\ calls' = [calls EXCEPT ![c].todo = @ \ {m}, ![c].visited = @ \cup {m}]
  /\ UNCHANGED <<socketVars, taskVars, routeVars>>

\* updateMany resolves
MarkDone(c) ==
  /\ calls[c].pc = "mark"
  /\ calls[c].todo = {}
  /\ calls' = [calls EXCEPT ![c] = IdleCall]
  /\ UNCHANGED messages
  /\ UNCHANGED <<socketVars, taskVars, routeVars>>

\* The validation dropped: every body shape is accepted.
InvalidShapeNever(body) ==
  FALSE

\* if (!req.body.recipient && !req.body.channel) 400
InvalidShape(body) ==
  body.recipient = {} /\ body.channel = {}

\* message:new to every connection, whatever the rooms.
MessageNewEmitsToAll(m, body, user) ==
  <<IoEmit("message:new") @@ [messageId |-> m]>>

\* POST /api/messages: message:new to the channel room if body.channel, else
\* to the recipient's and the sender's personal rooms
MessageNewEmits(m, body, user) ==
  IF body.channel # {}
  THEN <<IoTo(ChannelRoom(TheOne(body.channel)), "message:new") @@ [messageId |-> m]>>
  ELSE IF body.recipient # {}
       THEN <<IoTo(UserRoom(TheOne(body.recipient)), "message:new") @@ [messageId |-> m],
              IoTo(UserRoom(user), "message:new") @@ [messageId |-> m]>>
       ELSE << >>

\* for (const userId of req.body.mentions) io.to(`user:${userId}`).emit('mention:new', ...)
MentionEmits(m, body) ==
  [i \in 1..Len(body.mentions) |->
     IoTo(UserRoom(body.mentions[i]), "mention:new") @@ [messageId |-> m]]

\* POST /api/messages
PostMessage(m, body, user, now) ==
  /\ m \notin DOMAIN messages
  /\ IF InvalidShape(body)
     THEN /\ response' = Respond(400)
          /\ outbox' = << >>
          /\ UNCHANGED messages
     ELSE /\ messages' = messages @@ (m :> Message(user, body, now))
          /\ outbox' = MessageNewEmits(m, body, user) \o MentionEmits(m, body)
          /\ response' = AfterPublish(Respond(201),
                                      MessageNewEmits(m, body, user) \o MentionEmits(m, body))
  /\ UNCHANGED <<calls, deaf>>
  /\ UNCHANGED <<socketVars, taskVars>>

\* deleteMessage: updateOne({ _id, sender }, { $set: { isDeleted: true,
\* deletedAt: new Date() } }); the document it leaves, the one it found when
\* the filter does not match
SoftDeleted(msg, user, now) ==
  IF msg.sender = user
  THEN [msg EXCEPT !.isDeleted = TRUE, !.deletedAt = {now}]
  ELSE msg

\* DELETE /api/messages/:id: deleteMessage, then 404 if modifiedCount is 0,
\* else io.emit('message:deleted') and 200
DeleteMessage(m, user, now) ==
  /\ IF m \in DOMAIN messages /\ SoftDeleted(messages[m], user, now) # messages[m]
     THEN /\ messages' = [messages EXCEPT ![m] = SoftDeleted(@, user, now)]
          /\ outbox' = <<IoEmit("message:deleted") @@ [messageId |-> m]>>
          /\ response' = AfterPublish(Respond(200), <<IoEmit("message:deleted")>>)
     ELSE /\ UNCHANGED messages
          /\ outbox' = << >>
          /\ response' = Respond(404)
  /\ UNCHANGED <<calls, deaf>>
  /\ UNCHANGED <<socketVars, taskVars>>

\* The findOne of editMessage with no sender in its filter.
EditGuardAnyUser(msg, user) ==
  ~msg.isDeleted

\* editMessage: Message.findOne({ _id, sender: userId, isDeleted: { $ne: true } })
EditGuard(msg, user) ==
  msg.sender = user /\ ~msg.isDeleted

\* PATCH /api/messages/:id, up to the findOne of editMessage: the error of a
\* message that is not found is answered 400
EditMessageRead(c, m, content, user) ==
  /\ calls[c].pc = "idle"
  /\ IF m \in DOMAIN messages /\ EditGuard(messages[m], user)
     THEN /\ calls' = [calls EXCEPT ![c] =
                         [pc |-> "editSave", messageId |-> m, content |-> content, user |-> user]]
          /\ UNCHANGED <<outbox, response>>
     ELSE /\ response' = Respond(400)
          /\ outbox' = << >>
          /\ UNCHANGED calls
  /\ UNCHANGED <<messages, deaf>>
  /\ UNCHANGED <<socketVars, taskVars>>

\* editMessage: content, isEdited and editedAt are set on the document and
\* message.save() writes them; then io.emit('message:edited') and 200
EditMessageSave(c, now) ==
  /\ calls[c].pc = "editSave"
  /\ messages' = [messages EXCEPT ![calls[c].messageId] =
                    [@ EXCEPT !.content = calls[c].content, !.isEdited = TRUE,
                              !.editedAt = {now}]]
  /\ calls' = [calls EXCEPT ![c] = IdleCall]
  /\ outbox' = <<IoEmit("message:edited") @@ [messageId |-> calls[c].messageId]>>
  /\ response' = AfterPublish(Respond(200), <<IoEmit("message:edited")>>)
  /\ UNCHANGED deaf
  /\ UNCHANGED <<socketVars, taskVars>>

\* getUnreadCount: the $match stage
UnreadMessages(u) ==
  {m \in DOMAIN messages :
     /\ ~messages[m].isDeleted
     /\ messages[m].sender # u
     /\ (messages[m].recipient = {u} \/ messages[m].channel # {})
     /\ u \notin ReadByUsers(messages[m])}

\* getUnreadCount: the $group stage by { channel, sender } and the loop that
\* adds up total, byChannel and byConversation
GetUnreadCount(u) ==
  LET unread == UnreadMessages(u)
      groups == {<<messages[m].channel, messages[m].sender>> : m \in unread}
      count(g) == Cardinality({m \in unread : <<messages[m].channel, messages[m].sender>> = g})
      inChannel(ch) == {g \in groups : g[1] = {ch}}
      RECURSIVE Sum(_)
      Sum(G) == IF G = {} THEN 0
                ELSE LET g == CHOOSE x \in G : TRUE IN count(g) + Sum(G \ {g})
  IN  [total |-> Sum(groups),
       byChannel |-> [ch \in {TheOne(g[1]) : g \in {x \in groups : x[1] # {}}} |->
                        Sum(inChannel(ch))],
       byConversation |-> [s \in {g[2] : g \in {x \in groups : x[1] = {}}} |->
                             count(<<{}, s>>)]]

\* getConversations: the $match stage
ConversationMessages(u) ==
  {m \in DOMAIN messages :
     /\ ~messages[m].isDeleted
     /\ (messages[m].sender = u \/ messages[m].recipient = {u})
     /\ messages[m].recipient # {}}

\* The $group key taken to be the sender, whoever the viewer is.
CounterpartIsSender(msg, u) ==
  msg.sender

\* The $group key: $cond: { if: { $eq: ['$sender', user] }, then: '$recipient', else: '$sender' }
Counterpart(msg, u) ==
  IF msg.sender = u THEN TheOne(msg.recipient) ELSE msg.sender

\* The orders a $sort by createdAt descending can leave the documents S in
\* (documents of equal createdAt in either order).
SortedByCreatedAt(S) ==
  {q \in [1..Cardinality(S) -> S] :
     /\ \A i, j \in 1..Cardinality(S) : q[i] = q[j] => i = j
     /\ \A i, j \in 1..Cardinality(S) :
          i < j => messages[q[i]].createdAt >= messages[q[j]].createdAt}

\* The $group stage on the sorted documents q: per counterpart the $first
\* document and the $sum of the documents not sent by the viewer that have no
\* read receipt of the viewer; then $lookup and $unwind, which keep the
\* groups whose key is a user.
ConversationGroups(q, u) ==
  {[user |-> v,
    lastMessage |-> q[CHOOSE i \in 1..Len(q) :
                        /\ Counterpart(messages[q[i]], u) = v
                        /\ \A j \in 1..(i - 1) : Counterpart(messages[q[j]], u) # v],
    unreadCount |-> Cardinality({i \in 1..Len(q) :
                                   /\ Counterpart(messages[q[i]], u) = v
                                   /\ messages[q[i]].sender # u
                                   /\ u \notin ReadByUsers(messages[q[i]])})] :
     v \in {Counterpart(messages[q[i]], u) : i \in 1..Len(q)} \cap Users}

\* The last $sort, by lastMessage.createdAt descending
SortedByLastMessage(G) ==
  {r \in [1..Cardinality(G) -> G] :
     /\ \A i, j \in 1..Cardinality(G) : r[i] = r[j] => i = j
     /\ \A i, j \in 1..Cardinality(G) :
          i < j => messages[r[i].lastMessage].createdAt >= messages[r[j].lastMessage].createdAt}

\* getConversations(userId): the lists the aggregation can return
GetConversations(u) ==
  UNION {SortedByLastMessage(ConversationGroups(q, u)) :
           q \in SortedByCreatedAt(ConversationMessages(u))}

MessageInit ==
  /\ messages = << >>
  /\ calls = [c \in Calls |-> IdleCall]

\* No service call is between two of its store operations.
Quiescent == \A c \in Calls : calls[c].pc = "idle"

ChannelData ==
  {[channel |-> {ch}, recipient |-> {}, mentions |-> << >>, content |-> "m1"] : ch \in Channels}
DirectData ==
  {[channel |-> {}, recipient |-> {u}, mentions |-> << >>, content |-> "m1"] : u \in Users}

\* The messages of the read-receipt runs: user 1 posts to the general channel
\* or writes to the last user.
ReadSenders == {u \in Users : u <= 1}
ReadData ==
  {[channel |-> {GeneralChannel}, recipient |-> {}, mentions |-> << >>, content |-> "m1"],
   [channel |-> {}, recipient |-> {NumUsers}, mentions |-> << >>, content |-> "m1"]}

\* The bodies of POST /api/messages: channel, recipient and mentions as the
\* request carries them.
MaxMentions == 1
MentionLists == UNION {[1..n -> Users] : n \in 0..MaxMentions}
PostBodies ==
  {[channel |-> c, recipient |-> r, mentions |-> mt, content |-> "m1"] :
     c \in {{}} \cup {{ch} : ch \in Channels},
     r \in {{}} \cup {{u} : u \in Users},
     mt \in MentionLists}
PlainBodies == {b \in PostBodies : b.mentions = << >>}

\* The call slot of the runs in which the service calls do not overlap, and
\* the connection and the clock value of the runs that need only one.
FirstCall == {c \in Calls : c <= 1}
FirstReq == {r \in Reqs : r <= 1}
FirstSocket == {s \in Sockets : s <= 1}
TwoSockets == {s \in Sockets : s <= 2}
FirstTime == {x \in Times : x <= 1}
FirstUser == {u \in Users : u <= 1}
FirstActor == {a \in Actors : a <= 1}
FirstEmoji == {e \in Emojis : e <= 1}

\* A message to a channel, or a direct message to the last user.
UnreadBodies ==
  {b \in PlainBodies : (b.channel = {}) # (b.recipient = {}) /\ b.recipient \in {{}, {NumUsers}}}

vars == <<socketVars, taskVars, messageVars, routeVars>>

Init == SocketInit /\ TaskInit /\ MessageInit /\ RouteInit

NextPresence ==
  \/ \E s \in Sockets, tok \in Tokens : Connect(s, tok)
  \/ \E s \in Sockets, tok \in Tokens : ConnectRejected(s, tok)
  \/ \E s \in Sockets : Disconnect(s)

SpecPresence == Init /\ [][NextPresence]_vars

NextTask ==
  \/ \E t \in TaskIds, d \in CreateData, a \in Actors, now \in Times : CreateTask(t, d, a, now)
  \/ \E r \in FirstReq, t \in TaskIds, u \in StatusProposals, a \in Actors : UpdateTaskRead(r, t, u, a)
  \/ \E r \in FirstReq, t \in TaskIds, u \in StatusProposals, a \in Actors : UpdateTaskNotFound(r, t, u, a)
  \/ \E r \in FirstReq : UpdateTaskWrite(r)
  \/ \E ids \in SUBSET TaskIds, s \in Statuses, a \in Actors : BulkUpdateStatus(ids, s, a)
  \/ \E t \in TaskIds : DeleteTask(t)

SpecTask == Init /\ [][NextTask]_vars

NextAssign ==
  \/ \E t \in TaskIds, d \in CreateDataAssigned, a \in Actors, now \in Times : CreateTask(t, d, a, now)
  \/ \E r \in FirstReq, t \in TaskIds, u \in AssigneeProposals, a \in Actors : UpdateTaskRead(r, t, u, a)
  \/ \E r \in FirstReq : UpdateTaskWrite(r)

SpecAssign == Init /\ [][NextAssign]_vars

\* The rules of updateTask that compare the proposal with the document.
DiffRules == <<"status_changed", "priority_changed", "due_date_changed", "assigned", "unassigned">>

\* One update of a task, from every document createTask can leave and with
\* every proposal, the task having room for an activity of every rule.
NextDiff ==
  \/ \E t \in TaskIds, d \in DiffCreateData, a \in Actors, now \in FirstTime :
       CreateTask(t, d, a, now)
  \/ \E r \in FirstReq, t \in TaskIds, u \in DiffProposals, a \in Actors :
       /\ t \in DOMAIN tasks
       /\ Len(tasks[t].activities) + Len(DiffRules) <= MaxDiffActivities
       /\ UpdateTaskRead(r, t, u, a)
  \/ \E r \in FirstReq : UpdateTaskWriteUpTo(r, MaxDiffActivities)

SpecDiff == Init /\ [][NextDiff]_vars

\* updateTask requests on one task, the findById of one and the
\* findByIdAndUpdate of another in any order.
NextRace ==
  \/ \E t \in TaskIds, a \in Actors, now \in FirstTime : CreateTask(t, [title |-> "t1"], a, now)
  \/ \E r \in Reqs, t \in TaskIds, u \in RaceProposals, a \in Actors : UpdateTaskRead(r, t, u, a)
  \/ \E r \in Reqs : UpdateTaskWriteUpTo(r, MaxRaceActivities)

SpecRace == Init /\ [][NextRace]_vars

\* Attachments added and removed, the findById of one removeAttachment and
\* the findByIdAndUpdate of another in any order.
NextDetach ==
  \/ \E t \in TaskIds, a \in Actors, now \in FirstTime : CreateTask(t, [title |-> "t1"], a, now)
  \/ \E t \in TaskIds, u \in Users : AddAttachment(t, u)
  \/ \E r \in Reqs, t \in TaskIds, aid \in SubdocIds, u \in Users :
       RemoveAttachmentRead(r, t, aid, u)
  \/ \E r \in Reqs : RemoveAttachmentWriteUpTo(r, MaxDetachActivities)
  \/ \E t \in TaskIds : DeleteTask(t)

SpecDetach == Init /\ [][NextDetach]_vars

\* The tokens the authentication middleware accepts.
UserTokens == {tok \in Tokens : Authenticate(tok) # InactiveUser}

\* Task updates with connections subscribing to and leaving the task rooms.
NextTaskRoom ==
  \/ \E s \in Sockets, tok \in UserTokens : Connect(s, tok)
  \/ \E s \in Sockets : Disconnect(s)
  \/ \E s \in Sockets, t \in TaskIds : TaskSubscribe(s, t)
  \/ \E s \in Sockets, t \in TaskIds : TaskUnsubscribe(s, t)
  \/ \E t \in TaskIds, a \in Actors, now \in Times : CreateTask(t, [title |-> "t1"], a, now)
  \/ \E r \in FirstReq, t \in TaskIds, a \in Actors : UpdateTaskRead(r, t, [status |-> "done"], a)
  \/ \E r \in FirstReq : UpdateTaskWrite(r)

SpecTaskRoom == Init /\ [][NextTaskRoom]_vars

\* Every operation of TaskService that writes a task, interleaved.
NextAudit ==
  \/ \E t \in TaskIds, a \in Actors, now \in Times : CreateTask(t, [title |-> "t1"], a, now)
  \/ \E r \in FirstReq, t \in TaskIds, u \in AuditProposals, a \in Actors : UpdateTaskRead(r, t, u, a)
  \/ \E r \in FirstReq : UpdateTaskWrite(r)
  \/ \E ids \in SUBSET TaskIds, a \in Actors : BulkUpdateStatus(ids, "done", a)
  \/ \E t \in TaskIds, c \in Contents, u \in Users, now \in FirstTime : AddComment(t, c, u, now)
  \/ \E r \in FirstReq, t \in TaskIds, cid \in SubdocIds, c \in Contents, u \in Users :
       UpdateCommentRead(r, t, cid, c, u)
  \/ \E r \in FirstReq, now \in FirstTime : UpdateCommentWrite(r, now)
  \/ \E r \in FirstReq, t \in TaskIds, cid \in SubdocIds, u \in Users : DeleteCommentRead(r, t, cid, u)
  \/ \E r \in FirstReq : DeleteCommentWrite(r)
  \/ \E t \in TaskIds, u \in Users : AddAttachment(t, u)
  \/ \E r \in FirstReq, t \in TaskIds, aid \in SubdocIds, u \in Users :
       RemoveAttachmentRead(r, t, aid, u)
  \/ \E r \in FirstReq : RemoveAttachmentWrite(r)
  \/ \E ids \in ReorderLists : ReorderTasks(ids)
  \/ \E t \in TaskIds : DeleteTask(t)

SpecAudit == Init /\ [][NextAudit]_vars

\* Comments written, edited and deleted by the users, one request at a time
\* between its read and its write.
NextComment ==
  \/ \E t \in TaskIds, a \in Actors, now \in FirstTime : CreateTask(t, [title |-> "t1"], a, now)
  \/ \E t \in TaskIds, c \in Contents, u \in Users, now \in Times : AddComment(t, c, u, now)
  \/ \E r \in FirstReq, t \in TaskIds, cid \in SubdocIds, c \in Contents, u \in Users :
       UpdateCommentRead(r, t, cid, c, u)
  \/ \E r \in FirstReq, now \in Times : UpdateCommentWrite(r, now)
  \/ \E r \in FirstReq, t \in TaskIds, cid \in SubdocIds, u \in Users : DeleteCommentRead(r, t, cid, u)
  \/ \E r \in FirstReq : DeleteCommentWrite(r)
  \/ \E t \in TaskIds : DeleteTask(t)

SpecComment == Init /\ [][NextComment]_vars

\* Reactions, the calls running one at a time.
NextReactSeq ==
  \/ \E m \in RaceMsgIds, d \in ChannelData, u \in Users, now \in FirstTime : Quiescent /\ SendMessage(m, d, u, now)
  \/ \E c \in Calls, m \in RaceMsgIds, e \in Emojis, u \in Users :
       Quiescent /\ AddReactionFirst(c, m, e, u)
  \/ \E c \in Calls : AddReactionSecond(c)
  \/ \E c \in Calls : AddReactionReturn(c)
  \/ \E c \in Calls, m \in RaceMsgIds, e \in Emojis, u \in Users :
       Quiescent /\ RemoveReactionPull(c, m, e, u)
  \/ \E c \in Calls : RemoveReactionPrune(c)
  \/ \E c \in Calls : RemoveReactionReturn(c)

SpecReactSeq == Init /\ [][NextReactSeq]_vars

\* Reactions, the store operations of concurrent calls interleaved.
NextReact ==
  \/ \E m \in RaceMsgIds, d \in ChannelData, u \in Users, now \in FirstTime : SendMessage(m, d, u, now)
  \/ \E c \in Calls, m \in RaceMsgIds, e \in Emojis, u \in Users : AddReactionFirst(c, m, e, u)
  \/ \E c \in Calls : AddReactionSecond(c)
  \/ \E c \in Calls : AddReactionReturn(c)
  \/ \E c \in Calls, m \in RaceMsgIds, e \in Emojis, u \in Users : RemoveReactionPull(c, m, e, u)
  \/ \E c \in Calls : RemoveReactionPrune(c)
  \/ \E c \in Calls : RemoveReactionReturn(c)

SpecReact == Init /\ [][NextReact]_vars

\* Read receipts, the document updates of concurrent updateMany calls interleaved.
NextRead ==
  \/ \E m \in RaceMsgIds, d \in ReadData, u \in ReadSenders, now \in FirstTime : SendMessage(m, d, u, now)
  \/ \E c \in Calls, ids \in (SUBSET RaceMsgIds) \ {{}}, u \in Users, now \in Times :
       MarkAsRead(c, ids, u, now)
  \/ \E c \in Calls, u \in Users, now \in Times :
       \E ch \in {{}, {GeneralChannel}}, rid \in {{}} \cup {{x} : x \in ReadSenders} :
         MarkConversationAsRead(c, u, ch, rid, now)
  \/ \E c \in Calls, m \in RaceMsgIds : MarkStep(c, m)
  \/ \E c \in Calls : MarkDone(c)

SpecRead == Init /\ [][NextRead]_vars

\* Unread counts: messages are posted, deleted and marked read while
\* connections join and leave channel rooms.
NextUnread ==
  \/ \E s \in FirstSocket, tok \in UserTokens : Connect(s, tok)
  \/ \E s \in FirstSocket, ch \in Channels : ChannelJoin(s, ch)
  \/ \E s \in FirstSocket, ch \in Channels : ChannelLeave(s, ch)
  \/ \E m \in MsgIds, b \in UnreadBodies, u \in ReadSenders, now \in FirstTime : PostMessage(m, b, u, now)
  \/ \E m \in MsgIds, u \in Users, now \in FirstTime : DeleteMessage(m, u, now)
  \/ \E c \in FirstCall, m \in MsgIds, u \in Users, now \in FirstTime :
       MarkAsRead(c, {m}, u, now)
  \/ \E c \in FirstCall, m \in MsgIds : MarkStep(c, m)
  \/ \E c \in FirstCall : MarkDone(c)

SpecUnread == Init /\ [][NextUnread]_vars

\* The message routes and the read-receipt and reaction calls on a message,
\* one call at a time.
NextInbox ==
  \/ \E m \in RaceMsgIds, b \in PlainBodies, u \in Users, now \in FirstTime : PostMessage(m, b, u, now)
  \/ \E m \in RaceMsgIds, u \in Users, now \in FirstTime : DeleteMessage(m, u, now)
  \/ \E c \in FirstCall, m \in RaceMsgIds, u \in Users, now \in FirstTime :
       MarkAsRead(c, {m}, u, now)
  \/ \E c \in FirstCall, u \in Users, now \in FirstTime :
       \E ch \in {{}, {GeneralChannel}}, rid \in {{}} \cup {{x} : x \in ReadSenders} :
         MarkConversationAsRead(c, u, ch, rid, now)
  \/ \E c \in FirstCall, m \in RaceMsgIds : MarkStep(c, m)
  \/ \E c \in FirstCall : MarkDone(c)
  \/ \E c \in FirstCall, m \in RaceMsgIds, e \in Emojis, u \in Users : AddReactionFirst(c, m, e, u)
  \/ \E c \in FirstCall : AddReactionSecond(c)
  \/ \E c \in FirstCall : AddReactionReturn(c)
  \/ \E c \in FirstCall, m \in RaceMsgIds, e \in Emojis, u \in Users : RemoveReactionPull(c, m, e, u)
  \/ \E c \in FirstCall : RemoveReactionPrune(c)
  \/ \E c \in FirstCall : RemoveReactionReturn(c)

SpecInbox == Init /\ [][NextInbox]_vars

\* Messages sent, edited and deleted by the users; an edit is one call
\* between its findOne and its save.
NextEdit ==
  \/ \E m \in MsgIds, b \in UnreadBodies, u \in Users, now \in FirstTime : PostMessage(m, b, u, now)
  \/ \E c \in FirstCall, m \in MsgIds, ct \in Contents, u \in Users : EditMessageRead(c, m, ct, u)
  \/ \E c \in FirstCall, now \in Times : EditMessageSave(c, now)
  \/ \E m \in MsgIds, u \in Users, now \in Times : DeleteMessage(m, u, now)

SpecEdit == Init /\ [][NextEdit]_vars

\* An id that body('recipient').isMongoId() admits and that names no
\* document of the users collection.
NoSuchUser == NumUsers + 2

\* The bodies of the conversation lists: a recipient (a user, the sender
\* itself, or no user at all) or none, with or without the general channel.
ConversationBodies ==
  {[channel |-> c, recipient |-> r, mentions |-> << >>, content |-> "m1"] :
     c \in {{}, {GeneralChannel}},
     r \in {{}} \cup {{u} : u \in Users \cup {NoSuchUser}}}

NextConversations ==
  \/ \E m \in MsgIds, b \in ConversationBodies, u \in Users, now \in Times :
       PostMessage(m, b, u, now)
  \/ \E m \in MsgIds, u \in Users, now \in FirstTime : DeleteMessage(m, u, now)
  \/ \E c \in FirstCall, m \in MsgIds, u \in ReadSenders, now \in FirstTime :
       MarkAsRead(c, {m}, u, now)
  \/ \E c \in FirstCall, m \in MsgIds : MarkStep(c, m)
  \/ \E c \in FirstCall : MarkDone(c)

SpecConversations == Init /\ [][NextConversations]_vars

\* The bodies of typing:start and typing:stop.
TypingData ==
  {[channel |-> c, recipientId |-> r] :
     c \in {{}} \cup {{ch} : ch \in Channels}, r \in {{}} \cup {{u} : u \in Users}}

\* Message sends while connections come, go, and join and
\* leave channel rooms.
NextDispatch ==
  \/ \E s \in TwoSockets, tok \in UserTokens : Connect(s, tok)
  \/ \E s \in TwoSockets : Disconnect(s)
  \/ \E s \in TwoSockets, ch \in Channels : ChannelJoin(s, ch)
  \/ \E s \in TwoSockets, ch \in Channels : ChannelLeave(s, ch)
  \/ \E m \in RaceMsgIds, b \in PostBodies, u \in Users, now \in FirstTime : PostMessage(m, b, u, now)

SpecDispatch == Init /\ [][NextDispatch]_vars

\* Typing events while connections come, go, and join and leave channel rooms.
NextTyping ==
  \/ \E s \in TwoSockets, tok \in UserTokens : Connect(s, tok)
  \/ \E s \in TwoSockets : Disconnect(s)
  \/ \E s \in TwoSockets, ch \in Channels : ChannelJoin(s, ch)
  \/ \E s \in TwoSockets, ch \in Channels : ChannelLeave(s, ch)
  \/ \E s \in TwoSockets, d \in TypingData, ty \in BOOLEAN : Typing(s, d, ty)

SpecTyping == Init /\ [][NextTyping]_vars

\* Connections that join rooms and disconnect, with handlers publishing to
\* the rooms before and after.
NextGone ==
  \/ \E s \in TwoSockets, tok \in UserTokens : Connect(s, tok)
  \/ \E s \in TwoSockets : Disconnect(s)
  \/ \E s \in TwoSockets : ChannelJoin(s, "dev")
  \/ \E s \in TwoSockets, t \in TaskIds : TaskSubscribe(s, t)
  \/ \E m \in RaceMsgIds, b \in UnreadBodies, u \in ReadSenders, now \in FirstTime : PostMessage(m, b, u, now)
  \/ \E t \in TaskIds, a \in Actors, now \in FirstTime : CreateTask(t, [title |-> "t1"], a, now)
  \/ \E s \in TwoSockets, d \in TypingData : Typing(s, d, TRUE)

SpecGone == Init /\ [][NextGone]_vars

\* Mutations that publish, with connections whose transport has stalled.
NextDelivery ==
  \/ \E s \in TwoSockets, tok \in UserTokens : Connect(s, tok)
  \/ \E s \in TwoSockets : TransportStall(s)
  \/ \E m \in RaceMsgIds, b \in UnreadBodies, u \in ReadSenders, now \in FirstTime : PostMessage(m, b, u, now)
  \/ \E t \in TaskIds, a \in Actors, now \in Times : CreateTask(t, [title |-> "t1"], a, now)
  \/ \E r \in FirstReq, t \in TaskIds, a \in Actors : UpdateTaskRead(r, t, [status |-> "done"], a)
  \/ \E r \in FirstReq : UpdateTaskWrite(r)
  \/ \E t \in TaskIds, u \in ReadSenders, now \in FirstTime : AddComment(t, "c1", u, now)

SpecDelivery == Init /\ [][NextDelivery]_vars

\* Every mutating request on a task, a message, a comment or an attachment,
\* with ids that name a stored document and ids that name none.
NextMissing ==
  \/ \E t \in TaskIds, a \in FirstActor, now \in FirstTime : CreateTask(t, [title |-> "t1"], a, now)
  \/ \E r \in FirstReq, t \in TaskIds, a \in FirstActor : UpdateTaskNotFound(r, t, [status |-> "done"], a)
  \/ \E t \in TaskIds : DeleteTask(t)
  \/ \E t \in TaskIds : DeleteTaskNotFound(t)
  \/ \E t \in TaskIds, u \in FirstUser, now \in FirstTime : AddComment(t, "c1", u, now)
  \/ \E r \in FirstReq, t \in TaskIds, cid \in SubdocIds, u \in FirstUser :
       UpdateCommentRead(r, t, cid, "c2", u)
  \/ \E r \in FirstReq, now \in FirstTime : UpdateCommentWrite(r, now)
  \/ \E r \in FirstReq, t \in TaskIds, cid \in SubdocIds, u \in FirstUser : DeleteCommentRead(r, t, cid, u)
  \/ \E r \in FirstReq : DeleteCommentWrite(r)
  \/ \E t \in TaskIds, u \in FirstUser : AddAttachment(t, u)
  \/ \E r \in FirstReq, t \in TaskIds, aid \in SubdocIds, u \in FirstUser :
       RemoveAttachmentRead(r, t, aid, u)
  \/ \E r \in FirstReq : RemoveAttachmentWrite(r)
  \/ \E m \in RaceMsgIds, b \in UnreadBodies, u \in FirstUser, now \in FirstTime : PostMessage(m, b, u, now)
  \/ \E c \in FirstCall, m \in MsgIds, u \in FirstUser : EditMessageRead(c, m, "c1", u)
  \/ \E c \in FirstCall, now \in FirstTime : EditMessageSave(c, now)
  \/ \E m \in MsgIds, u \in FirstUser, now \in FirstTime : DeleteMessage(m, u, now)
  \/ \E c \in FirstCall, m \in MsgIds, e \in Emojis, u \in FirstUser : AddReactionFirst(c, m, e, u)
  \/ \E c \in FirstCall : AddReactionSecond(c)
  \/ \E c \in FirstCall : AddReactionReturn(c)
  \/ \E c \in FirstCall, m \in MsgIds, e \in Emojis, u \in FirstUser : RemoveReactionPull(c, m, e, u)
  \/ \E c \in FirstCall : RemoveReactionPrune(c)
  \/ \E c \in FirstCall : RemoveReactionReturn(c)

SpecMissing == Init /\ [][NextMissing]_vars

\* Direct messages sent, edited, deleted and reacted to while the users'
\* connections come and go.
NextPrivate ==
  \/ \E s \in TwoSockets, tok \in UserTokens : Connect(s, tok)
  \/ \E s \in TwoSockets : Disconnect(s)
  \/ \E m \in RaceMsgIds, b \in DirectData, u \in Users, now \in FirstTime : PostMessage(m, b, u, now)
  \/ \E c \in FirstCall, m \in RaceMsgIds, u \in Users : EditMessageRead(c, m, "c1", u)
  \/ \E c \in FirstCall, now \in FirstTime : EditMessageSave(c, now)
  \/ \E m \in RaceMsgIds, u \in Users, now \in FirstTime : DeleteMessage(m, u, now)
  \/ \E c \in FirstCall, m \in RaceMsgIds, e \in FirstEmoji, u \in FirstUser :
       Quiescent /\ AddReactionFirst(c, m, e, u)
  \/ \E c \in FirstCall : AddReactionSecond(c)
  \/ \E c \in FirstCall : AddReactionReturn(c)
  \/ \E c \in FirstCall, m \in RaceMsgIds, e \in FirstEmoji, u \in FirstUser :
       Quiescent /\ RemoveReactionPull(c, m, e, u)
  \/ \E c \in FirstCall : RemoveReactionPrune(c)
  \/ \E c \in FirstCall : RemoveReactionReturn(c)

SpecPrivate == Init /\ [][NextPrivate]_vars

\* The names a client can send with channel:join and channel:leave: any
\* string, here a channel, the ids of the users and the names of their
\* personal rooms; and task ids that are also user ids.
ClientNames ==
  {GeneralChannel} \cup {ToString(u) : u \in Users} \cup {WireName(UserRoom(u)) : u \in Users}
ClientTaskIds == TaskIds \cup Users

\* Connections joining and leaving rooms by names of the client's choice.
NextRooms ==
  \/ \E s \in TwoSockets, tok \in UserTokens : Connect(s, tok)
  \/ \E s \in TwoSockets : Disconnect(s)
  \/ \E s \in TwoSockets, n \in ClientNames : ChannelJoin(s, n)
  \/ \E s \in TwoSockets, n \in ClientNames : ChannelLeave(s, n)
  \/ \E s \in TwoSockets, t \in ClientTaskIds : TaskSubscribe(s, t)
  \/ \E s \in TwoSockets, t \in ClientTaskIds : TaskUnsubscribe(s, t)

SpecRooms == Init /\ [][NextRooms]_vars

\* ----------------------------------------------------- presence properties
\* The connections of u that connected and have not yet disconnected.
OpenConns(u) == {s \in Sockets : sockState[s] = "open" /\ sockUser[s] = u}

CountEvents(log, u, on) ==
  Cardinality({i \in 1..Len(log) : log[i] = OnlineEvent(u, on)})

\* C1: isUserOnline(u) holds exactly when u has a connection that connected
\* and has not disconnected, getOnlineUsers() is exactly the set of such
\* users, the presence map holds no user with an empty connection set, and
\* a disconnect that leaves another connection of u open leaves u online.
PresenceMatchesOpenConnections ==
  /\ [](/\ \A u \in Users : IsUserOnline(u) <=> OpenConns(u) # {}
        /\ GetOnlineUsers = {u \in Users : OpenConns(u) # {}}
        /\ \A u \in DOMAIN onlineUsers : onlineUsers[u] # {})
  /\ [][\A u \in Users :
          (Cardinality(OpenConns(u)) >= 2 /\ Cardinality(OpenConns(u)') < Cardinality(OpenConns(u)))
            => IsUserOnline(u)']_vars

\* Two connections of u were opened, one has disconnected while the other
\* stayed open (u never went offline), and u is reported online.
OneOfTwoTabsClosedStillOnline ==
  \E u \in Users : \E s1, s2 \in Sockets :
    /\ sockUser[s1] = u /\ sockState[s1] = "open"
    /\ sockUser[s2] = u /\ sockState[s2] = "closed"
    /\ CountEvents(emitted, u, FALSE) = 0
    /\ IsUserOnline(u)

\* C2: a step emits user:online {online:false} for u exactly when it closes
\* u's last open connection, and then exactly once.
OfflineExactlyOnLastDisconnect ==
  [][\A u \in Users :
       CountEvents(emitted', u, FALSE) - CountEvents(emitted, u, FALSE)
         = IF OpenConns(u) # {} /\ OpenConns(u)' = {} THEN 1 ELSE 0]_vars

\* Two tabs of u were open together and both have disconnected: one offline
\* notification overall.
TwoTabsClosedOneOffline ==
  \E u \in Users : \E s1, s2 \in Sockets :
    /\ s1 # s2
    /\ sockUser[s1] = u /\ sockState[s1] = "closed"
    /\ sockUser[s2] = u /\ sockState[s2] = "closed"
    /\ OpenConns(u) = {}
    /\ CountEvents(emitted, u, TRUE) = 2
    /\ CountEvents(emitted, u, FALSE) = 1

\* C3: a step emits user:online {online:true} for u exactly when it takes u
\* from zero to one open connection, and then exactly once.
OnlineBroadcastOncePerEdge ==
  [][\A u \in Users :
       CountEvents(emitted', u, TRUE) - CountEvents(emitted, u, TRUE)
         = IF OpenConns(u) = {} /\ OpenConns(u)' # {} THEN 1 ELSE 0]_vars

\* -------------------------------------------------------- task properties
\* The activities a step appends to task t.
Appended(t) ==
  SubSeq(tasks'[t].activities, Len(tasks[t].activities) + 1, Len(tasks'[t].activities))

\* The step is the store write of updateTask call r, on a task that exists.
IsUpdateWrite(r) ==
  /\ req[r].pc = "loaded"
  /\ req'[r].pc = "idle"
  /\ req[r].taskId \in DOMAIN tasks

\* C4: the write of an updateTask whose proposal holds only status, with a
\* value Y other than the status X the call read, appends exactly one
\* activity: status_changed with metadata {from: X, to: Y}.
StatusOnlyUpdateAppendsOneStatusChanged ==
  [][\A r \in Reqs :
       (/\ IsUpdateWrite(r)
        /\ DOMAIN req[r].updates = {"status"}
        /\ req[r].updates.status # req[r].snapshot.status)
       => Appended(req[r].taskId)
            = <<Activity("status_changed", req[r].actor,
                         [from |-> req[r].snapshot.status, to |-> req[r].updates.status])>>]_vars

\* A task whose latest activity is the status_changed {from, to} of an update
\* that moved it from todo to done.
StatusChangedTodoToDoneWritten ==
  \E t \in DOMAIN tasks :
    LET acts == tasks[t].activities
    IN  /\ Len(acts) = 2
        /\ acts[2].type = "status_changed"
        /\ acts[2].metadata = [from |-> "todo", to |-> "done"]
        /\ tasks[t].status = "done"

\* C5: a task's completedAt is non-null exactly when its status is done.
CompletedAtIffDone ==
  \A t \in DOMAIN tasks : (tasks[t].completedAt # {}) <=> (tasks[t].status = "done")

\* C6: the write of an updateTask that proposes assignees appends an assigned
\* activity iff new \ old is non-empty, with added = new \ old, an unassigned
\* activity iff old \ new is non-empty, with removed = old \ new, at most one
\* of each, and neither when the two id sets are equal.
AssigneeDiffActivities ==
  [][\A r \in Reqs :
       (IsUpdateWrite(r) /\ Has(req[r].updates, "assignees"))
       => LET old == Range(req[r].snapshot.assignees)
              new == Range(req[r].updates.assignees)
              app == Appended(req[r].taskId)
              asg == {i \in 1..Len(app) : app[i].type = "assigned"}
              uns == {i \in 1..Len(app) : app[i].type = "unassigned"}
          IN  /\ Cardinality(asg) = (IF new \ old # {} THEN 1 ELSE 0)
              /\ Cardinality(uns) = (IF old \ new # {} THEN 1 ELSE 0)
              /\ \A i \in asg : Range(app[i].metadata.added) = new \ old
              /\ \A i \in uns : Range(app[i].metadata.removed) = old \ new
              /\ \A i \in asg : \A j \in uns : i < j]_vars

\* Assignees went from [1,2] to [2,3]: one assigned with added [3], then one
\* unassigned with removed [1].
AssigneesSwappedOneEach ==
  \E t \in DOMAIN tasks :
    LET acts == tasks[t].activities
    IN  /\ Len(acts) = 3
        /\ acts[2].type = "assigned" /\ acts[2].metadata = [added |-> <<3>>]
        /\ acts[3].type = "unassigned" /\ acts[3].metadata = [removed |-> <<1>>]
        /\ tasks[t].assignees = <<2, 3>>

\* ----------------------------------------------------- message properties
\* User u is in the user set of the entry of emoji e.
ReactedWith(reactions, e, u) ==
  \E i \in 1..Len(reactions) : reactions[i].emoji = e /\ InSeq(u, reactions[i].users)

IsPrefix(s, t) == Len(s) <= Len(t) /\ SubSeq(t, 1, Len(s)) = s

\* C7: when addReaction(M, E, U) has done its writes and is about to return,
\* U is in the user set of M's entry for E.
AddReactionLeavesUserOnEmoji ==
  \A c \in Calls :
    (calls[c].pc = "addReturn" /\ calls[c].messageId \in DOMAIN messages)
    => ReactedWith(messages[calls[c].messageId].reactions, calls[c].emoji, calls[c].user)

\* C8: a second addReaction with the same arguments changes nothing, after
\* the call that just ran and from every state between calls; removeReaction
\* of a user who is not on the emoji changes nothing.
ReactionToggleIdempotent ==
  /\ \A c \in Calls :
       (calls[c].pc = "addReturn" /\ calls[c].messageId \in DOMAIN messages)
       => LET r == messages[calls[c].messageId].reactions
          IN  AddReactionSeq(r, calls[c].emoji, calls[c].user) = r
  /\ Quiescent =>
       \A m \in DOMAIN messages : \A e \in Emojis : \A u \in Users :
         LET r == messages[m].reactions
             once == AddReactionSeq(r, e, u)
         IN  /\ AddReactionSeq(once, e, u) = once
             /\ ~ReactedWith(r, e, u) => RemoveReactionSeq(r, e, u) = r

\* An addReaction has just put its user on an emoji of a message that
\* carries two reaction entries.
AddedToOneOfTwoEntries ==
  \E c \in Calls :
    /\ calls[c].pc = "addReturn"
    /\ calls[c].messageId \in DOMAIN messages
    /\ Len(messages[calls[c].messageId].reactions) = 2
    /\ ReactedWith(messages[calls[c].messageId].reactions, calls[c].emoji, calls[c].user)

\* C9: under every interleaving of the store writes of addReaction and
\* removeReaction calls, a message has at most one reactions entry per emoji
\* and no user twice in an entry; and while no removeReaction is between its
\* pull and its prune, no entry has an empty user set.
ReactionsWellFormed ==
  \A m \in DOMAIN messages :
    LET r == messages[m].reactions
    IN  /\ \A i, j \in 1..Len(r) : r[i].emoji = r[j].emoji => i = j
        /\ \A i \in 1..Len(r) :
             \A k, l \in 1..Len(r[i].users) : r[i].users[k] = r[i].users[l] => k = l
        /\ (\A c \in Calls : calls[c].pc # "removePrune")
             => \A i \in 1..Len(r) : Len(r[i].users) > 0

\* Two addReaction calls for the same new emoji overlap: one found no entry
\* and is about to create it, and the other has created it meanwhile.
AddRacesWithEntryCreation ==
  \E c \in Calls :
    /\ calls[c].pc = "addSecond"
    /\ calls[c].messageId \in DOMAIN messages
    /\ HasEmoji(messages[calls[c].messageId].reactions, calls[c].emoji)

\* C10: under every interleaving of the document updates of markAsRead and
\* markConversationAsRead calls, readBy holds at most one entry per user, and
\* every step keeps the entries that exist (user and readAt) as they are.
ReadByOneEntryPerUser ==
  /\ [](\A m \in DOMAIN messages :
          \A i, j \in 1..Len(messages[m].readBy) :
            messages[m].readBy[i].user = messages[m].readBy[j].user => i = j)
  /\ [][\A m \in DOMAIN messages : IsPrefix(messages[m].readBy, messages'[m].readBy)]_vars

\* A mark call of a user has visited a message that this user had already
\* read at another instant: the earlier entry is the one that is there.
RemarkedKeepsFirstReadAt ==
  \E c \in Calls : \E m \in DOMAIN messages :
    /\ calls[c].pc = "mark"
    /\ m \in calls[c].visited
    /\ Selected(calls[c].sel, m, messages[m], calls[c].user)
    /\ \E i \in 1..Len(messages[m].readBy) :
         /\ messages[m].readBy[i].user = calls[c].user
         /\ messages[m].readBy[i].readAt # calls[c].now

\* The step completes updateTask call r on a task that is no longer stored.
IsUpdateWriteMissing(r) ==
  /\ req[r].pc = "loaded"
  /\ req'[r].pc = "idle"
  /\ req[r].taskId \notin DOMAIN tasks

\* C16: an updateTask on an id that is not in the store, at its read or, the
\* task having been deleted meanwhile, at its write, leaves the store as it
\* is (no activity, no field), answers 404 and publishes nothing.
UpdateOfMissingTaskIsNotFound ==
  [][((\E r \in Reqs, t \in TaskIds, u \in StatusProposals, a \in Actors :
         UpdateTaskNotFound(r, t, u, a))
      \/ (\E r \in Reqs : IsUpdateWriteMissing(r)))
     => /\ tasks' = tasks
        /\ response' = Respond(404)
        /\ outbox' = << >>]_vars

\* A task was created and deleted, an update of it has been answered 404 and
\* nothing was published for it.
UpdateAfterDeleteAnswered404 ==
  /\ taskUsed # {}
  /\ \E t \in taskUsed : t \notin DOMAIN tasks
  /\ \A r \in Reqs : req[r].pc = "idle"
  /\ response = Respond(404)
  /\ outbox = << >>

\* C15: every step of createTask, updateTask, bulkUpdateStatus, addComment,
\* updateComment, deleteComment, addAttachment, removeAttachment and
\* reorderTasks, in any interleaving, leaves the activities a task had as a
\* prefix of the activities it has.
ActivitiesAppendOnly ==
  [][\A t \in DOMAIN tasks :
       t \in DOMAIN tasks' => IsPrefix(tasks[t].activities, tasks'[t].activities)]_vars

\* A comment was added and deleted again and the task was then moved to
\* done: the comment is gone, its comment_added activity is still second.
CommentDeletedActivityKept ==
  \E t \in DOMAIN tasks :
    /\ tasks[t].comments = << >>
    /\ Len(tasks[t].activities) = 3
    /\ tasks[t].activities[1].type = "created"
    /\ tasks[t].activities[2].type = "comment_added"
    /\ tasks[t].activities[3].type = "status_changed"

\* ---------------------------------------------------- dispatch properties
\* C17: the publishes of a task update that persisted hold one task:updated
\* to the room task:<id> of the task and one to the global broadcast.
TaskUpdatePublishedToTaskRoom ==
  \A i \in 1..Len(outbox) :
    outbox[i].event = "task:updated"
    => /\ \E j \in 1..Len(outbox) :
            outbox[j].event = "task:updated" /\ outbox[j].room = TaskRoom(outbox[i].taskId)
       /\ \E j \in 1..Len(outbox) :
            outbox[j].event = "task:updated" /\ outbox[j].room = Broadcast

\* User u has an open connection that is in the room of channel ch.
Participates(u, ch) ==
  \E s \in Sockets : sockState[s] = "open" /\ sockUser[s] = u /\ ChannelRoom(ch) \in rooms[s]

\* C11: getUnreadCount(u).total is the number of stored messages that are
\* not deleted, not sent by u, not read by u, and addressed to u: a direct
\* message to u, or a message in a channel u participates in.
UnreadTotalCountsAddressedOnly ==
  \A u \in Users :
    GetUnreadCount(u).total =
      Cardinality({m \in DOMAIN messages :
                     /\ ~messages[m].isDeleted
                     /\ messages[m].sender # u
                     /\ u \notin ReadByUsers(messages[m])
                     /\ \/ messages[m].recipient = {u}
                        \/ /\ messages[m].channel # {}
                           /\ Participates(u, TheOne(messages[m].channel))})

\* C12: a POST /api/messages whose body has neither channel nor recipient is
\* answered with an error, stores no message and publishes nothing.
SendWithNeitherIsRejected ==
  [][(\E m \in RaceMsgIds, b \in PlainBodies, u \in Users, now \in FirstTime :
        b.channel = {} /\ b.recipient = {} /\ PostMessage(m, b, u, now))
     => /\ messages' = messages
        /\ response' = Respond(400)
        /\ outbox' = << >>]_vars

\* A send was answered 400 while the store holds no message and nothing was
\* published.
SendRejectedNothingStored ==
  /\ response = Respond(400)
  /\ messages = << >>
  /\ outbox = << >>

\* C13: every stored message has exactly one of recipient and channel set.
ExactlyOneOfRecipientAndChannel ==
  \A m \in DOMAIN messages :
    (messages[m].recipient = {}) # (messages[m].channel = {})

\* C14: once a message is soft-deleted, no step changes its readBy or its
\* reactions.
DeletedMessageIsFrozen ==
  [][\A m \in DOMAIN messages :
       messages[m].isDeleted
       => /\ messages'[m].readBy = messages[m].readBy
          /\ messages'[m].reactions = messages[m].reactions]_vars

\* The open connections of user u (the members of the personal room user:<u>)
\* and the open connections that have joined room.
ConnectionsOf(u) == {s \in Sockets : sockState[s] = "open" /\ sockUser[s] = u}
InRoom(room) == {s \in Sockets : sockState[s] = "open" /\ room \in rooms[s]}

\* The connections the publishes pubs of event ev address.
Addressed(pubs, ev) == UNION {pubs[i].targets : i \in {k \in 1..Len(pubs) : pubs[k].event = ev}}

TypingReachesRoomWithoutEcho ==
  [][\A s \in TwoSockets, d \in TypingData, ty \in BOOLEAN :
       Typing(s, d, ty)
       => /\ Addressed(outbox', "typing")
               = (IF d.channel # {} THEN InRoom(ChannelRoom(TheOne(d.channel)))
                  ELSE IF d.recipientId # {} THEN ConnectionsOf(TheOne(d.recipientId))
                  ELSE {}) \ {s}
          /\ Len(outbox') = (IF d.channel # {} \/ d.recipientId # {} THEN 1 ELSE 0)
          /\ \A i \in 1..Len(outbox') :
               /\ outbox'[i].event = "typing"
               /\ outbox'[i].userId = sockUser[s]
               /\ outbox'[i].typing = ty
               /\ s \notin outbox'[i].targets
          /\ UNCHANGED <<socketVars, taskVars, messageVars>>]_vars

\* A connection typed in a channel that it and another connection are in:
\* the other connection is addressed, the typing one is not.
TypingSeenByOtherOnly ==
  \E i \in 1..Len(outbox) : \E s2 \in Sockets :
    /\ outbox[i].event = "typing"
    /\ outbox[i].room.kind = "channel"
    /\ outbox[i].room \in rooms[outbox[i].origin]
    /\ s2 # outbox[i].origin
    /\ outbox[i].targets = {s2}

\* -------------------------------------------------- connection properties
\* The token is absent, or its signature does not verify, or it names no
\* active user.
BadToken(tok) == ~tok.present \/ ~tok.valid \/ tok.userId \notin Users

\* C21: a handshake whose token is absent or invalid, or names a user that
\* does not exist or is inactive, ends rejected and leaves the presence map,
\* the rooms and the user:online broadcasts as they were; a rejected
\* connection is never in a presence set nor in a room.
RejectedBeforeConnectionHandler ==
  /\ [](\A s \in Sockets :
          sockState[s] = "rejected"
          => /\ rooms[s] = {}
             /\ \A u \in DOMAIN onlineUsers : s \notin onlineUsers[u])
  /\ [][\A s \in Sockets, tok \in Tokens :
          (BadToken(tok) /\ (Connect(s, tok) \/ ConnectRejected(s, tok)))
          => /\ sockState'[s] = "rejected"
             /\ UNCHANGED <<sockUser, onlineUsers, rooms, emitted>>]_vars

\* One handshake was rejected and another accepted: the only broadcast is the
\* accepted user's, the only presence entry too.
OneRejectedOneAccepted ==
  \E s1, s2 \in Sockets :
    /\ sockState[s1] = "rejected"
    /\ sockState[s2] = "open"
    /\ Len(emitted) = 1
    /\ emitted[1] = OnlineEvent(sockUser[s2], TRUE)
    /\ onlineUsers = (sockUser[s2] :> {s2})

\* C22: a connection that has disconnected is in no user's presence set and
\* in no room, and no publish made after its disconnect addresses it,
\* whatever rooms it had joined.
DisconnectedIsPrunedEverywhere ==
  /\ [](\A s \in Sockets :
          sockState[s] = "closed"
          => /\ rooms[s] = {}
             /\ \A u \in DOMAIN onlineUsers : s \notin onlineUsers[u])
  /\ [][\A s \in Sockets :
          (sockState[s] = "closed" /\ outbox' # outbox)
          => \A i \in 1..Len(outbox') :
               s \notin outbox'[i].targets /\ s \notin outbox'[i].reached]_vars

\* A connection of user 2 that had joined the dev channel has disconnected,
\* and a message then posted to dev addressed the other connection, of the
\* same user, only.
PostAfterDisconnectSkipsClosed ==
  \E s1, s2 \in Sockets : \E i \in 1..Len(outbox) :
    /\ sockState[s1] = "closed" /\ sockState[s2] = "open"
    /\ sockUser[s1] = sockUser[s2]
    /\ outbox[i].event = "message:new"
    /\ outbox[i].room = ChannelRoom("dev")
    /\ outbox[i].targets = {s2}
    /\ onlineUsers = (sockUser[s2] :> {s2})

\* ----------------------------------------------------- comment properties
\* The step completes comment request r (an updateComment or a
\* deleteComment that passed its guard).
IsCommentWrite(r, pc) == req[r].pc = pc /\ req'[r].pc = "idle"

\* C23: updateComment by a user who is not the comment's author is answered
\* with the error, deleteComment with false (404), and both leave the tasks
\* as they are; a step that changes or removes a comment of a task that stays
\* is the write of a request of the comment's author; and the write of an
\* updateComment changes nothing but the content, updatedAt and isEdited
\* (to true) of that comment.
CommentChangedOnlyByAuthor ==
  [][/\ \A r \in Reqs, t \in DOMAIN tasks, cid \in SubdocIds, c \in Contents, u \in Users :
          (/\ HasComment(tasks[t], cid)
           /\ CommentOf(tasks[t], cid).author # u
           /\ (UpdateCommentRead(r, t, cid, c, u) \/ DeleteCommentRead(r, t, cid, u)))
          => /\ tasks' = tasks
             /\ req' = req
             /\ response' \in {Respond(400), Respond(404)}
             /\ UpdateCommentRead(r, t, cid, c, u) => response' = Respond(400)
             /\ DeleteCommentRead(r, t, cid, u) => response' = Respond(404)
     /\ \A t \in DOMAIN tasks \cap DOMAIN tasks' :
          \A i \in 1..Len(tasks[t].comments) :
            LET c == tasks[t].comments[i]
            IN  (~HasComment(tasks'[t], c.id) \/ CommentOf(tasks'[t], c.id) # c)
                => \E r \in Reqs :
                     /\ IsCommentWrite(r, "updateComment") \/ IsCommentWrite(r, "deleteComment")
                     /\ req[r].taskId = t
                     /\ req[r].commentId = c.id
                     /\ req[r].user = c.author
     /\ \A r \in Reqs :
          (IsCommentWrite(r, "updateComment") /\ req[r].taskId \in DOMAIN tasks
           /\ HasComment(tasks[req[r].taskId], req[r].commentId))
          => LET t == req[r].taskId
                 old == tasks[t].comments
                 new == tasks'[t].comments
             IN  /\ [tasks'[t] EXCEPT !.comments = old] = tasks[t]
                 /\ Len(new) = Len(old)
                 /\ \A i \in 1..Len(old) :
                      IF old[i].id = req[r].commentId
                      THEN /\ new[i].content = req[r].content
                           /\ new[i].isEdited
                           /\ [new[i] EXCEPT !.content = old[i].content,
                                             !.updatedAt = old[i].updatedAt,
                                             !.isEdited = old[i].isEdited] = old[i]
                      ELSE new[i] = old[i]]_vars

\* Two users commented on a task; the second comment was edited by its
\* author at a later instant, the first is as it was written.
SecondCommentEditedFirstIntact ==
  \E t \in DOMAIN tasks :
    LET cs == tasks[t].comments
    IN  /\ Len(cs) = 2
        /\ cs[1].author # cs[2].author
        /\ ~cs[1].isEdited /\ cs[1].updatedAt = cs[1].createdAt
        /\ cs[2].isEdited /\ cs[2].updatedAt > cs[2].createdAt
        /\ cs[2].content = "c2"
        /\ response = Respond(200)

\* ------------------------------------------------- edit / delete properties
\* C24: editMessage by a user who is not the sender, or on a soft-deleted
\* message, is answered with the error, deleteMessage by a user who is not
\* the sender with 404; both leave every message as it is and publish
\* nothing; and a step that changes the content, the edit marks or the delete
\* marks of a message is the write of its sender's call.
EditAndDeleteOnlyBySender ==
  [][/\ \A c \in FirstCall, m \in DOMAIN messages, ct \in Contents, u \in Users :
          ((messages[m].sender # u \/ messages[m].isDeleted) /\ EditMessageRead(c, m, ct, u))
          => /\ messages' = messages
             /\ calls' = calls
             /\ response' = Respond(400)
             /\ outbox' = << >>
     /\ \A m \in DOMAIN messages, u \in Users, now \in Times :
          (messages[m].sender # u /\ DeleteMessage(m, u, now))
          => /\ messages' = messages
             /\ response' = Respond(404)
             /\ outbox' = << >>
     /\ \A m \in DOMAIN messages :
          LET marks(msg) == <<msg.content, msg.isEdited, msg.editedAt, msg.isDeleted, msg.deletedAt>>
          IN  marks(messages'[m]) # marks(messages[m])
              => \/ \E c \in Calls :
                      /\ calls[c].pc = "editSave" /\ calls'[c].pc = "idle"
                      /\ calls[c].messageId = m
                      /\ calls[c].user = messages[m].sender
                 \/ /\ messages'[m].isDeleted
                    /\ messages'[m].deletedAt # messages[m].deletedAt
                    /\ outbox' = <<IoEmit("message:deleted")' @@ [messageId |-> m]>>
     /\ \A i \in 1..Len(outbox') :
          (outbox' # outbox /\ outbox'[i].event \in {"message:edited", "message:deleted"})
          => LET m == outbox'[i].messageId
             IN  /\ outbox'[i].event = "message:edited"
                      => /\ messages'[m].isEdited
                         /\ \E c \in Calls :
                              /\ calls[c].pc = "editSave" /\ calls'[c].pc = "idle"
                              /\ calls[c].messageId = m
                              /\ calls[c].user = messages[m].sender
                 /\ outbox'[i].event = "message:deleted"
                      => /\ messages'[m].isDeleted
                         /\ messages'[m] # messages[m]]_vars

\* User 1's message was edited by user 1, and the latest request, by somebody
\* who may not touch it, was refused: nothing published, the edit is there.
ForeignEditRefused ==
  \E m \in DOMAIN messages :
    /\ messages[m].sender = 1
    /\ messages[m].isEdited /\ messages[m].content = "c1"
    /\ ~messages[m].isDeleted
    /\ response \in {Respond(400), Respond(404)}
    /\ outbox = << >>
    /\ Quiescent

\* ----------------------------------------------------- diff rule properties
TypesOf(acts) == [i \in 1..Len(acts) |-> acts[i].type]
RuleRank(type) == CHOOSE k \in 1..Len(DiffRules) : DiffRules[k] = type
Fired(acts, type) == \E i \in 1..Len(acts) : acts[i].type = type

\* C25: the write of an updateTask appends, after the activities the task
\* has, one activity for each rule that applies and none for a rule that
\* does not, each rule decided by its own fields whatever the other keys of
\* the proposal are, in the order status_changed, priority_changed,
\* due_date_changed, assigned, unassigned. (For the due date this formula
\* fixes the cases in which a day is set on either side; a null proposed for
\* a task without due date is C27's.)
DiffRulesFireIndependentlyInOrder ==
  [][\A r \in Reqs :
       IsUpdateWrite(r)
       => LET t == req[r].taskId
              snap == req[r].snapshot
              up == req[r].updates
              app == Appended(t)
              diffs == SelectSeq(app, LAMBDA a : a.type # "updated")
          IN  /\ IsPrefix(tasks[t].activities, tasks'[t].activities)
              /\ \A i \in 1..Len(diffs) : InSeq(diffs[i].type, DiffRules)
              /\ \A i, j \in 1..Len(diffs) :
                   i < j => RuleRank(diffs[i].type) < RuleRank(diffs[j].type)
              /\ \A i \in 1..Len(app) : app[i].actor = req[r].actor
              /\ Fired(app, "status_changed")
                   <=> (Has(up, "status") /\ up.status # snap.status)
              /\ Fired(app, "priority_changed")
                   <=> (Has(up, "priority") /\ up.priority # snap.priority)
              /\ Fired(app, "assigned")
                   <=> (Has(up, "assignees")
                        /\ Range(up.assignees) \ Range(snap.assignees) # {})
              /\ Fired(app, "unassigned")
                   <=> (Has(up, "assignees")
                        /\ Range(snap.assignees) \ Range(up.assignees) # {})
              /\ (Has(up, "dueDate") /\ (up.dueDate # {} \/ snap.dueDate # {}))
                   => (Fired(app, "due_date_changed")
                       <=> \/ (up.dueDate = {}) # (snap.dueDate = {})
                           \/ IsoDay(TheOne(up.dueDate)) # IsoDay(TheOne(snap.dueDate)))
              /\ ~Has(up, "dueDate") => ~Fired(app, "due_date_changed")]_vars

\* One update changed status, priority, due date and assignees (one added,
\* one removed): the task holds created and then the five activities in
\* the fixed order.
AllFiveRulesFiredInOneWrite ==
  \E t \in DOMAIN tasks :
    /\ TypesOf(tasks[t].activities) = <<"created">> \o DiffRules
    /\ tasks[t].activities[5].metadata = [added |-> <<2>>]
    /\ tasks[t].activities[6].metadata = [removed |-> <<1>>]

\* C26: the write of an updateTask appends exactly one updated activity,
\* with metadata.fields the keys of the proposal, when the proposal is not
\* empty and no status, priority, due-date or assignee activity is appended;
\* it appends nothing for an empty proposal, and never an updated activity
\* next to another one.
UpdatedOnlyWhenNoRuleFired ==
  [][\A r \in Reqs :
       IsUpdateWrite(r)
       => LET up == req[r].updates
              app == Appended(req[r].taskId)
              general == SelectSeq(app, LAMBDA a : a.type = "updated")
              diffs == SelectSeq(app, LAMBDA a : a.type # "updated")
          IN  /\ Len(general) = (IF DOMAIN up # {} /\ diffs = << >> THEN 1 ELSE 0)
              /\ \A i \in 1..Len(general) :
                   general[i] = Activity("updated", req[r].actor, [fields |-> DOMAIN up])
              /\ DOMAIN up = {} => app = << >>
              /\ Fired(app, "updated") => Len(app) = 1]_vars

\* An update proposed the status and the priority the task already had and
\* the same assignees in another order: the one activity after created is
\* updated, with the three field names.
UnchangedValuesReportedAsUpdated ==
  \E t \in DOMAIN tasks :
    /\ Len(tasks[t].activities) = 2
    /\ tasks[t].activities[2].type = "updated"
    /\ tasks[t].activities[2].metadata = [fields |-> {"status", "priority", "assignees"}]
    /\ Len(tasks[t].assignees) = 2

\* The calendar day a due date is compared by: none for null or absent.
CalendarDay(v) == IF v = {} THEN {} ELSE {IsoDay(TheOne(v))}

\* C27: the write of an updateTask appends a due_date_changed activity
\* exactly when the proposal has the dueDate key (null included) and its
\* calendar day differs from the one of the task's due date, no due date
\* and null being the same; its metadata gives the two days.
DueDateChangedIffDayDiffers ==
  [][\A r \in Reqs :
       IsUpdateWrite(r)
       => LET snap == req[r].snapshot
              up == req[r].updates
              app == Appended(req[r].taskId)
              changes == SelectSeq(app, LAMBDA a : a.type = "due_date_changed")
          IN  /\ Len(changes) =
                   (IF Has(up, "dueDate") /\ CalendarDay(up.dueDate) # CalendarDay(snap.dueDate)
                    THEN 1 ELSE 0)
              /\ \A i \in 1..Len(changes) :
                   changes[i].metadata = [from |-> OldDate(snap), to |-> NewDate(up.dueDate)]]_vars

\* ------------------------------------------------ conversation properties
\* Message msg belongs to the conversation a markConversationAsRead call of
\* user u names: the channel, or the messages the counterpart sent to u (both,
\* when both are named); a call that names neither selects no conversation.
InConversation(sel, msg, u) ==
  /\ sel.channel # {} \/ sel.recipientId # {}
  /\ sel.channel # {} => msg.channel = sel.channel
  /\ sel.recipientId # {} => (msg.sender = TheOne(sel.recipientId) /\ msg.recipient = {u})

\* C28: each document update of a markConversationAsRead call of u appends
\* u to the readBy of a message of the selected conversation that u has not
\* read, and leaves every other message, and every message when the call
\* names neither a channel nor a counterpart, as it is.
MarkConversationTouchesOnlyItsConversation ==
  [][\A c \in Calls : \A m \in DOMAIN messages :
       (/\ calls[c].pc = "mark"
        /\ calls[c].sel.kind = "conversation"
        /\ m \in calls[c].todo
        /\ calls'[c].pc = "mark"
        /\ m \notin calls'[c].todo)
       => /\ messages'[m].readBy =
               (IF InConversation(calls[c].sel, messages[m], calls[c].user)
                   /\ calls[c].user \notin ReadByUsers(messages[m])
                THEN Append(messages[m].readBy, [user |-> calls[c].user, readAt |-> calls[c].now])
                ELSE messages[m].readBy)
          /\ \A x \in DOMAIN messages \ {m} : messages'[x] = messages[x]]_vars

\* The non-deleted direct messages between u and v, and the users u has
\* such messages with.
Between(u, v) ==
  {m \in DOMAIN messages :
     /\ ~messages[m].isDeleted
     /\ \/ messages[m].sender = u /\ messages[m].recipient = {v}
        \/ messages[m].sender = v /\ messages[m].recipient = {u}}
Partners(u) == {v \in Users : Between(u, v) # {}}

\* What C29 says of a list r returned to u, but for the unread counts: one
\* entry per counterpart, its lastMessage a most recent message between the
\* two, the entries by lastMessage time, most recent first. (A direct
\* message is a message with a recipient.)
ConversationEntriesRight(u, r) ==
  /\ {r[i].user : i \in 1..Len(r)} = Partners(u)
  /\ Len(r) = Cardinality(Partners(u))
  /\ \A i \in 1..Len(r) :
       /\ r[i].lastMessage \in Between(u, r[i].user)
       /\ \A m \in Between(u, r[i].user) :
            messages[m].createdAt <= messages[r[i].lastMessage].createdAt
  /\ \A i, j \in 1..Len(r) :
       i < j => messages[r[i].lastMessage].createdAt >= messages[r[j].lastMessage].createdAt

\* C29 as stated: every list getConversations(u) can return has one entry
\* per counterpart v of u's non-deleted direct messages, with a most recent
\* message between u and v as lastMessage, with unreadCount the number of
\* those messages sent by v that lack u in readBy, sorted by lastMessage
\* time, most recent first.
ConversationListAsStated ==
  \A u \in Users : \A r \in GetConversations(u) :
    /\ ConversationEntriesRight(u, r)
    /\ \A i \in 1..Len(r) :
         r[i].unreadCount =
           Cardinality({m \in Between(u, r[i].user) :
                          messages[m].sender = r[i].user /\ u \notin ReadByUsers(messages[m])})

\* C29, amended: the same, with unreadCount the number of those messages
\* sent by v, and not by u itself, that lack u in readBy (a user's messages
\* to itself are never unread).
ConversationListPerCounterpart ==
  \A u \in Users : \A r \in GetConversations(u) :
    /\ ConversationEntriesRight(u, r)
    /\ \A i \in 1..Len(r) :
         r[i].unreadCount =
           Cardinality({m \in Between(u, r[i].user) :
                          /\ messages[m].sender = r[i].user
                          /\ messages[m].sender # u
                          /\ u \notin ReadByUsers(messages[m])})

\* The last user has two conversations, the one with user 1 holding the later
\* message, unread, and the list returned to user 2 starts with it.
TwoConversationsLatestFirst ==
  \E r \in GetConversations(NumUsers) :
    /\ Len(r) = 2
    /\ r[1].user = 1 /\ r[1].unreadCount = 1
    /\ r[2].user = NumUsers /\ r[2].unreadCount = 0
    /\ messages[r[1].lastMessage].createdAt > messages[r[2].lastMessage].createdAt


\* ------------------------------------------------- absent target properties

\* A failure outcome for the caller, no stored record changed, no event
\* published.
FailsCleanly ==
  /\ response'.code >= 400
  /\ tasks' = tasks
  /\ messages' = messages
  /\ outbox' = << >>

\* C30: a mutating request that names a task, a message, a comment or an
\* attachment that is not stored (update or delete of a task; add, edit or
\* delete of a comment; add or removal of an attachment; edit or delete of a
\* message; add or removal of a reaction) is answered with a failure, changes
\* no stored record and publishes no event; the store operations of a
\* reaction call on an absent message change nothing on their way.
AbsentTargetFailsCleanly ==
  [][/\ \A r \in Reqs, t \in TaskIds, u \in Users :
          /\ t \notin DOMAIN tasks
          /\ \/ \E a \in Actors : UpdateTaskNotFound(r, t, [status |-> "done"], a)
             \/ DeleteTaskNotFound(t)
             \/ \E now \in Times : AddComment(t, "c1", u, now)
             \/ \E cid \in SubdocIds : UpdateCommentRead(r, t, cid, "c2", u)
             \/ \E cid \in SubdocIds : DeleteCommentRead(r, t, cid, u)
             \/ AddAttachment(t, u)
             \/ \E aid \in SubdocIds : RemoveAttachmentRead(r, t, aid, u)
          => FailsCleanly
     /\ \A r \in Reqs, t \in TaskIds, u \in Users, cid \in SubdocIds :
          /\ t \in DOMAIN tasks
          /\ ~HasComment(tasks[t], cid)
          /\ UpdateCommentRead(r, t, cid, "c2", u) \/ DeleteCommentRead(r, t, cid, u)
          => FailsCleanly
     /\ \A r \in Reqs, t \in TaskIds, u \in Users, aid \in SubdocIds :
          /\ t \in DOMAIN tasks
          /\ ~HasAttachment(tasks[t], aid)
          /\ RemoveAttachmentRead(r, t, aid, u)
          => FailsCleanly
     /\ \A c \in Calls, m \in MsgIds, u \in Users :
          /\ m \notin DOMAIN messages
          /\ \/ EditMessageRead(c, m, "c1", u)
             \/ \E now \in Times : DeleteMessage(m, u, now)
          => FailsCleanly
     /\ \A c \in Calls :
          /\ calls[c].pc \in {"addSecond", "addReturn", "removePrune", "removeReturn"}
          /\ calls[c].messageId \notin DOMAIN messages
          => /\ AddReactionSecond(c) \/ RemoveReactionPrune(c) => messages' = messages
             /\ AddReactionReturn(c) \/ RemoveReactionReturn(c) => FailsCleanly
     /\ \A c \in Calls, m \in MsgIds, e \in Emojis, u \in Users :
          /\ m \notin DOMAIN messages
          /\ AddReactionFirst(c, m, e, u) \/ RemoveReactionPull(c, m, e, u)
          => messages' = messages
    ]_vars


\* ------------------------------------------------------- overlap properties

TaskFields == {"status", "priority", "dueDate", "assignees", "title"}

\* The step from document before to document after is the whole write of
\* the loaded request q: every field it proposes has the proposed value,
\* every other field is as before, and its activities are appended.
WholeWriteOf(q, before, after) ==
  /\ \A k \in TaskFields :
       after[k] = IF Has(q.updates, k) THEN q.updates[k] ELSE before[k]
  /\ after.activities = before.activities \o q.activities
  /\ after.comments = before.comments /\ after.attachments = before.attachments

\* C31: updateTask applies all proposed fields and the activities computed
\* for them in one store write: whenever a stored task changes while
\* updateTask requests are in flight, the step is the whole write of one of
\* them, so no state (and no snapshot another request reads) has some of an
\* update's fields without the others or without its activities.
UpdateIsAppliedWhole ==
  [][\A t \in DOMAIN tasks :
       t \in DOMAIN tasks' /\ tasks'[t] # tasks[t]
       => \E r \in Reqs :
            /\ req[r].pc = "loaded" /\ req[r].taskId = t /\ req'[r].pc = "idle"
            /\ WholeWriteOf(req[r], tasks[t], tasks'[t])
    ]_vars

\* A request has read the task after a two-field update was written, while
\* another request that read the task before that write is still in flight:
\* status, priority and both activities are in its snapshot together.
SnapshotSeesTwoFieldUpdate ==
  \E r \in Reqs, q \in Reqs :
    /\ r # q
    /\ req[r].pc = "loaded" /\ req[q].pc = "loaded"
    /\ req[r].snapshot.status = "done" /\ req[r].snapshot.priority = "high"
    /\ TypesOf(req[r].snapshot.activities) = <<"created", "status_changed", "priority_changed">>
    /\ req[q].snapshot.status = "todo" /\ Len(req[q].snapshot.activities) = 1


\* C32: an updateTask whose write meets the document its findById read (no
\* other write landed in between, as when requests do not overlap) reports
\* in status_changed the status stored immediately before its write; with
\* overlapping requests the from of a status_changed can be a status the
\* task no longer held (StaleFromWritten is reachable).
FromIsStoredStatusUnlessOverlapped ==
  [][\A r \in Reqs :
       /\ req[r].pc = "loaded" /\ req'[r].pc = "idle"
       /\ req[r].taskId \in DOMAIN tasks
       /\ req[r].snapshot = tasks[req[r].taskId]
       => LET t == req[r].taskId
              written == SubSeq(tasks'[t].activities, Len(tasks[t].activities) + 1,
                                Len(tasks'[t].activities))
          IN  /\ written = req[r].activities
              /\ \A i \in 1..Len(written) :
                   written[i].type = "status_changed"
                   => /\ written[i].metadata.from = tasks[t].status
                      /\ written[i].metadata.to = tasks'[t].status
              /\ tasks'[t].status # tasks[t].status
                 => \E i \in 1..Len(written) : written[i].type = "status_changed"
    ]_vars

\* Two requests read status todo; the first wrote done, the second then
\* wrote in_progress with from todo, the status the task held before the
\* first write, not the done it held immediately before the second.
StaleFromWritten ==
  \E t \in DOMAIN tasks :
    /\ tasks[t].status = "in_progress"
    /\ Len(tasks[t].activities) = 3
    /\ tasks[t].activities[2].type = "status_changed"
    /\ tasks[t].activities[2].metadata = [from |-> "todo", to |-> "done"]
    /\ tasks[t].activities[3].type = "status_changed"
    /\ tasks[t].activities[3].metadata = [from |-> "todo", to |-> "in_progress"]


\* ------------------------------------------------ status activity properties

\* C33: a status_changed activity is appended to a task only by a step that
\* changes the task's status to a different value, and it carries metadata
\* {from, to} with from # to; updateTask and bulkUpdateStatus alike.
StatusChangedOnlyOnChange ==
  [][\A t \in DOMAIN tasks :
       t \in DOMAIN tasks'
       => \A i \in (Len(tasks[t].activities) + 1)..Len(tasks'[t].activities) :
            LET a == tasks'[t].activities[i]
            IN  a.type = "status_changed"
                => /\ tasks'[t].status # tasks[t].status
                   /\ DOMAIN a.metadata = {"from", "to"}
                   /\ a.metadata.from # a.metadata.to
    ]_vars


\* -------------------------------------------------- direct message properties

MessageEvents == {"message:new", "message:edited", "message:reaction", "message:deleted"}

\* The users a direct message is between.
Parties(msg) == {msg.sender} \cup msg.recipient

\* C34: an event that carries a message with a recipient (message:new,
\* message:edited, message:reaction, message:deleted) reaches only
\* connections of the message's sender or recipient.
DirectMessageEventsReachOnlyParties ==
  \A i \in 1..Len(outbox) :
    /\ outbox[i].event \in MessageEvents
    /\ outbox[i].messageId \in DOMAIN messages
    /\ messages[outbox[i].messageId].recipient # {}
    => \A s \in outbox[i].reached : sockUser[s] \in Parties(messages[outbox[i].messageId])


\* -------------------------------------------------- personal room properties

\* The names of the rooms connection s is in.
JoinedNames(s) == {WireName(r) : r \in rooms[s]}

\* C35: every open connection of user u is in the room user:u and no
\* connection of another user is, whatever names the clients send with
\* channel:join, channel:leave, task:subscribe and task:unsubscribe.
PersonalRoomIsOwn ==
  \A s \in Sockets, u \in Users :
    /\ sockState[s] = "open" /\ sockUser[s] = u
       => WireName(UserRoom(u)) \in JoinedNames(s)
    /\ sockUser[s] # u => WireName(UserRoom(u)) \notin JoinedNames(s)

\* A connection of user 2 has asked to join the other user's personal room
\* and the task whose id is that user's id, and has left every channel.
ForeignNamesJoined ==
  \E s \in Sockets :
    /\ sockState[s] = "open" /\ sockUser[s] = 2
    /\ JoinedNames(s) = {"user:2", "channel:user:1", "task:1"}


\* -------------------------------------------------- attachment race properties

CountOfType(acts, type) == Cardinality({i \in 1..Len(acts) : acts[i].type = type})

\* C36: at most one attachment_removed activity is appended for an
\* attachment (a task never has more of them than attachments it was given),
\* and a removeAttachment whose write finds the attachment already gone
\* appends no activity and reports failure.
AttachmentRemovedAtMostOnce ==
  /\ [](\A t \in DOMAIN tasks :
          CountOfType(tasks[t].activities, "attachment_removed")
            <= CountOfType(tasks[t].activities, "attachment_added"))
  /\ [][\A r \in Reqs :
          /\ req[r].pc = "removeAttachment" /\ req'[r].pc = "idle"
          /\ req[r].taskId \in DOMAIN tasks
          /\ ~HasAttachment(tasks[req[r].taskId], req[r].attachmentId)
          => /\ tasks' = tasks
             /\ response'.code >= 400
       ]_vars


\* ------------------------------------------------ unread agreement properties

\* The sum of the values of a record of counts.
SumOfCounts(f) ==
  LET RECURSIVE Sum(_)
      Sum(K) == IF K = {} THEN 0
                ELSE LET k == CHOOSE x \in K : TRUE IN f[k] + Sum(K \ {k})
  IN  Sum(DOMAIN f)

\* byConversation[v], 0 when absent
CountFor(f, v) == IF v \in DOMAIN f THEN f[v] ELSE 0

\* C37: for every user u, every list getConversations(u) can return gives
\* each counterpart v the unreadCount getUnreadCount(u).byConversation[v]
\* (0 when absent), every counterpart of byConversation has an entry in the
\* list, and getUnreadCount(u).total is the sum of its byChannel and
\* byConversation values.
UnreadAggregationsAgree ==
  \A u \in Users :
    LET unread == GetUnreadCount(u)
    IN  /\ \A r \in GetConversations(u) :
             /\ \A i \in 1..Len(r) :
                  r[i].unreadCount = CountFor(unread.byConversation, r[i].user)
             /\ \A v \in DOMAIN unread.byConversation :
                  \E i \in 1..Len(r) : r[i].user = v
        /\ unread.total = SumOfCounts(unread.byChannel) + SumOfCounts(unread.byConversation)

====
